---- MODULE Spec2Model ----
(***************************************************************************)
(* A model of the incremental crawl-and-rank pipeline of the V2EX          *)
(* collector: the storage gateway (src/src/database.py), the change        *)
(* detection filter, the threaded fetch-and-persist pipeline and the       *)
(* section orchestrator (src/src/v2ex_crawler.py).                         *)
(*                                                                         *)
(* The module holds several specifications over one set of variables;      *)
(* each one exercises one component and leaves the variables of the other  *)
(* components at their initial value.                                      *)
(*                                                                         *)
(*   SpecTopics   the thread table under insert_or_update_topic and        *)
(*                batch_insert_or_update_topics                            *)
(*   SpecReplies  the reply table under insert_or_update_reply and         *)
(*                batch_insert_or_update_replies                           *)
(*   SpecFilter   _filter_topics_to_update over a stored thread table      *)
(*   SpecHot      update_total_thanks and update_hotness_scores            *)
(*   SpecPipe     _get_topic_content_and_replies_batch_threaded            *)
(*   SpecCrawl    crawl_topics_by_nodes in serial and in concurrent mode   *)
(*   SpecRerun    crawl_topics_by_nodes run twice                          *)
(*   SpecRun      the pipeline followed by _save_crawled_data              *)
(*   SpecFetch    _make_request, parse_node_page and the detail fetch      *)
(*   SpecParse    the reply cells of a thread page                         *)
(*   SpecSanitize the length limits of the sanitizers                      *)
(*   SpecClean    clean_old_data                                           *)
(*   SpecReport   _generate_unified_report                                 *)
(*   SpecTxn      batch_insert_or_update_topics as a transaction           *)
(*   SpecLock     process_single_topic step by step under the lock         *)
(*   SpecBackoff  the waits of _make_request between failed attempts       *)
(*   SpecStore    batch flushes, final saves and purges over one store     *)
(*   SpecMaint    run_full_maintenance of the scheduler                    *)
(*   SpecSynth    parsed replies with site and synthesized ids, stored     *)
(*   SpecDup      the pipeline over a listing that names a thread twice    *)
(*   SpecRate     _rate_limit_async under concurrent coroutines            *)
(***************************************************************************)
EXTENDS Integers, Sequences, FiniteSets, TLC

VARIABLES
    v2ex_topics,    \* thread table: a function from the stored ids to rows
    v2ex_replies,   \* reply table: a function from the stored ids to rows
    v2ex_users,     \* author table: the set of stored usernames
    now,            \* the wall clock, in seconds
    lastOp,         \* the storage operation of the last step (history)
    lastArgs,       \* the arguments of a scoring operation (history)
    listed,         \* the list handed to _filter_topics_to_update
    kept,           \* the list it returned
    pipeline_topics,        \* the pipeline's input list (topics)
    max_concurrent_replies, \* the configured concurrency bound
    raiser,                 \* index of the thread whose worker raises, 0: none
    worker,                 \* per index: "queued", "running", "counted", "done"
    processed_count,
    failed_count,
    current_batch_topics,
    current_batch_replies,
    current_batch_users,
    all_replies,
    flush,                  \* the last batch handed to storage (history)
    returned,               \* the pipeline has returned
    fetch_count,            \* per index: the detail fetches made (history)
    writes,                 \* the storage writes of the run, in order (history)
    max_concurrent_nodes,   \* 1: serial mode, more: concurrent mode
    node_results,           \* per section: Pending or the section's result
    failed_sections,        \* the sections whose crawl raised (history)
    crawl_result,           \* what crawl_topics_by_nodes returned
    store0,                 \* the store the run started from (history)
    serial_run,             \* store and result after the serial run (history)
    max_retries,    \* crawler_config['max_retries']
    max_pages,      \* the page limit of crawl_node_with_pagination
    pc,             \* where the section's listing crawl stands
    page,           \* the loop variable of crawl_node_with_pagination
    attempt,        \* the loop variable of _make_request
    responses,      \* what the attempts of the current request met (history)
    soup,           \* what _make_request returned
    page_results,   \* per requested page: what became of it (history)
    all_topics,     \* the number of entries gathered so far
    detail,         \* the detail fetch of a listed thread (history)
    reply_cells,    \* the reply cells of one thread page, in document order
    parse_topic_id, \* the thread the page belongs to
    parsed_runs,    \* the reply lists parsed from the page, one per run
    reports,        \* the report table
    notion_pages,   \* the report pages pushed to Notion
    llm_result,     \* the result of the last analyze_content call
    report_results, \* the results of the report generations (history)
    lock,           \* the holder of the pipeline's lock, 0: free
    reg,            \* per worker: the value read by an increment under way
    appended,       \* per thread: how often it joined current_batch_topics
    waits,          \* the backoff waits of the request under way, in tenths of a second
    maintenance,    \* the run_full_maintenance call under way: position and results
    maintenance_log,    \* how the earlier run_full_maintenance calls ended (history)
    last_request_time,  \* the rate limiter's time of the last request
    coroutine,      \* per reply-fetch coroutine: its position in _rate_limit_async
    request_starts  \* the start times of the detail requests (history)

\* SQL NULL and Python None of a nullable number.  Stored timestamps and
\* counters are unsigned, so no stored value equals it.
NULL == 0 - 1

Min(a, b) == IF a < b THEN a ELSE b
Max(a, b) == IF a > b THEN a ELSE b

(***************************************************************************)
(* Bounds of the model.                                                    *)
(***************************************************************************)
MaxClock == 2       \* the clock of the table specifications runs 0..MaxClock

\* Thread ids and reply ids of the table specifications: one row that an
\* upsert hits and one that it must leave alone.
ThreadIds == {1, 2}
ReplyIds == {1, 2}

(***************************************************************************)
(* Strings are kept as a tag (which text it is), a length and whether the  *)
(* text ends in a truncation marker.                                       *)
(***************************************************************************)
Str(tag, len) == [tag |-> tag, len |-> len, cut |-> FALSE]

EmptyStr == Str(0, 0)

\* original[:n]
Prefix(s, n) == IF s.len > n THEN [tag |-> s.tag, len |-> n, cut |-> FALSE] ELSE s

\* A variant that cuts at max_chars and then appends the suffix.
TruncateWithSuffix_Appended(s, max_chars, suffix_len) ==
    IF s.len > max_chars
    THEN [tag |-> s.tag, len |-> max_chars + suffix_len, cut |-> TRUE]
    ELSE s

\* original[:max_chars - len(suffix)] + suffix when len(original) > max_chars
TruncateWithSuffix(s, max_chars, suffix_len) ==
    IF s.len > max_chars
    THEN [tag |-> s.tag, len |-> (max_chars - suffix_len) + suffix_len, cut |-> TRUE]
    ELSE s

TitleMaxChars == 500
UrlMaxChars == 500
TopicContentMaxChars == 16000
ReplyContentMaxChars == 3000
UsernameMaxChars == 50
SuffixLen == 10
RepliesCeiling == 65535

(***************************************************************************)
(* Thread records as the parser and the detail fetch hand them to storage. *)
(* A shape fixes every field but the id and the timestamps:                *)
(*   1  a listing entry as _parse_topic_cell builds it                     *)
(*   2  a re-listed, fetched thread with over-long title and body          *)
(*   3  a record without last-activity information (last_touched None)     *)
(*   4  a record the table rejects: created is None, the column NOT NULL   *)
(*   5  a listing entry of a thread without replies                        *)
(* The URL of a thread embeds its id (web_parser.py:242), so two ids never *)
(* share a URL and the UNIQUE key on url never fires for another id.       *)
(***************************************************************************)
TopicShapes == {1, 2, 3, 4}

TopicDict(id, shape, ts) ==
    [ id              |-> id,
      title           |-> Str(shape, IF shape = 2 THEN TitleMaxChars + 1 ELSE 5),
      url             |-> Str(10 * id + shape, 30),
      content         |-> IF shape \in {1, 5} THEN EmptyStr
                          ELSE Str(shape, IF shape = 2 THEN TopicContentMaxChars + 1 ELSE 40),
      node_name       |-> shape,
      member_username |-> shape,
      replies         |-> CASE shape = 1 -> 10
                            [] shape = 2 -> 70000
                            [] shape = 3 -> NULL
                            [] shape = 4 -> 0 - 5
                            [] OTHER     -> 0,
      created         |-> IF shape = 4 THEN NULL ELSE ts,
      last_touched    |-> IF shape = 3 THEN NULL ELSE ts,
      last_modified   |-> IF shape = 2 THEN ts ELSE NULL,
      deleted         |-> IF shape = 2 THEN 1 ELSE 0 ]

\* _sanitize_topic_data
SanitizeTopic(d) ==
    [d EXCEPT !.title   = Prefix(@, TitleMaxChars),
              !.url     = Prefix(@, UrlMaxChars),
              !.content = TruncateWithSuffix(@, TopicContentMaxChars, SuffixLen),
              !.replies = Min(Max(IF @ = NULL THEN 0 ELSE @, 0), RepliesCeiling)]

\* A DECIMAL(10, 4) value: whole part and the four decimals.
Dec(whole, frac) == [whole |-> whole, frac |-> frac]

\* The NULL of the score column.
NullScore == Dec(NULL, NULL)

\* The NOT NULL columns of v2ex_topics: a row with a NULL there is refused.
TopicRowAccepted(d) == d.created # NULL

\* The VALUES (...) part of the upsert: the row of a new thread.  The
\* derived columns take their DEFAULT.
NewTopicRow(s, crawled_at) ==
    [ title                   |-> s.title,
      url                     |-> s.url,
      content                 |-> s.content,
      node_name               |-> s.node_name,
      member_username         |-> s.member_username,
      replies                 |-> s.replies,
      created_timestamp       |-> s.created,
      last_touched_timestamp  |-> s.last_touched,
      last_modified_timestamp |-> s.last_modified,
      is_deleted              |-> s.deleted,
      total_thanks_count      |-> 0,
      hotness_score           |-> Dec(0, 0),
      crawled_at              |-> crawled_at ]

\* A variant whose UPDATE adds the reply count to the stored one.
UpdatedTopicRow_Accumulating(row, s, crawled_at) ==
    [row EXCEPT !.title                   = s.title,
                !.content                 = s.content,
                !.replies                 = @ + s.replies,
                !.last_touched_timestamp  = s.last_touched,
                !.last_modified_timestamp = s.last_modified,
                !.is_deleted              = s.deleted,
                !.crawled_at              = crawled_at]

\* A variant whose UPDATE assigns every column of the VALUES list.
UpdatedTopicRow_AllValues(row, s, crawled_at) ==
    [row EXCEPT !.title                   = s.title,
                !.url                     = s.url,
                !.content                 = s.content,
                !.node_name               = s.node_name,
                !.member_username         = s.member_username,
                !.replies                 = s.replies,
                !.created_timestamp       = s.created,
                !.last_touched_timestamp  = s.last_touched,
                !.last_modified_timestamp = s.last_modified,
                !.is_deleted              = s.deleted,
                !.crawled_at              = crawled_at]

\* The ON DUPLICATE KEY UPDATE part of the upsert.
UpdatedTopicRow(row, s, crawled_at) ==
    [row EXCEPT !.title                   = s.title,
                !.content                 = s.content,
                !.replies                 = s.replies,
                !.last_touched_timestamp  = s.last_touched,
                !.last_modified_timestamp = s.last_modified,
                !.is_deleted              = s.deleted,
                !.crawled_at              = crawled_at]

PutRow(T, id, row) == [i \in DOMAIN T \cup {id} |-> IF i = id THEN row ELSE T[i]]

\* INSERT ... ON DUPLICATE KEY UPDATE of one sanitized record.
TopicUpsertRow(T, s, crawled_at) ==
    IF s.id \in DOMAIN T
    THEN PutRow(T, s.id, UpdatedTopicRow(T[s.id], s, crawled_at))
    ELSE PutRow(T, s.id, NewTopicRow(s, crawled_at))

RECURSIVE TopicExecuteMany(_, _, _)
TopicExecuteMany(T, batch, crawled_at) ==
    IF batch = <<>> THEN T
    ELSE TopicExecuteMany(TopicUpsertRow(T, SanitizeTopic(Head(batch)), crawled_at),
                          Tail(batch), crawled_at)

\* Whether the statement over the whole batch goes through.
TopicBatchAccepted(batch) ==
    \A i \in 1..Len(batch) : TopicRowAccepted(SanitizeTopic(batch[i]))

\* batch_insert_or_update_topics: one executemany and one commit; a refused
\* row raises, get_cursor rolls the transaction back and the table is as it
\* was.
BatchInsertOrUpdateTopicsOp(T, batch, crawled_at) ==
    IF batch = <<>> THEN T
    ELSE IF TopicBatchAccepted(batch) THEN TopicExecuteMany(T, batch, crawled_at)
    ELSE T

\* insert_or_update_topic
InsertOrUpdateTopicOp(T, d, crawled_at) ==
    IF TopicRowAccepted(SanitizeTopic(d))
    THEN TopicUpsertRow(T, SanitizeTopic(d), crawled_at)
    ELSE T

EmptyTable == << >>

(***************************************************************************)
(* Reply records as _parse_reply_cell builds them.  A shape fixes every    *)
(* field but the ids and the timestamp:                                    *)
(*   1  a short reply without endorsements                                 *)
(*   2  a reply with an over-long body and author name, 20 endorsements    *)
(*   3  a reply the table refuses: created is None, the column NOT NULL    *)
(***************************************************************************)
ReplyShapes == {1, 2, 3}

ReplyDict(id, topic_id, shape, ts) ==
    [ id              |-> id,
      topic_id        |-> topic_id,
      member_username |-> Str(shape, IF shape = 2 THEN UsernameMaxChars + 1 ELSE 6),
      content         |-> Str(shape, IF shape = 2 THEN ReplyContentMaxChars + 1 ELSE 12),
      reply_floor     |-> shape,
      created         |-> IF shape = 3 THEN NULL ELSE ts,
      last_modified   |-> IF shape = 3 THEN NULL ELSE ts,
      thanks          |-> IF shape = 2 THEN 20 ELSE 0 ]

\* _sanitize_reply_data
SanitizeReply(r) ==
    [r EXCEPT !.content         = TruncateWithSuffix(@, ReplyContentMaxChars, SuffixLen),
              !.member_username = Prefix(@, UsernameMaxChars)]

\* NOT NULL created_timestamp, and FOREIGN KEY (topic_id) REFERENCES
\* v2ex_topics(id): a reply of a thread that is not stored is refused.
ReplyRowAccepted(r, topics) == r.created # NULL /\ r.topic_id \in DOMAIN topics

NewReplyRow(s, crawled_at) ==
    [ topic_id                |-> s.topic_id,
      member_username         |-> s.member_username,
      content                 |-> s.content,
      reply_floor             |-> s.reply_floor,
      created_timestamp       |-> s.created,
      last_modified_timestamp |-> s.last_modified,
      thanks_count            |-> s.thanks,
      crawled_at              |-> crawled_at ]

\* A variant whose UPDATE assigns every column of the VALUES list.
UpdatedReplyRow_AllValues(row, s, crawled_at) ==
    [row EXCEPT !.topic_id          = s.topic_id,
                !.member_username   = s.member_username,
                !.content           = s.content,
                !.reply_floor       = s.reply_floor,
                !.created_timestamp = s.created,
                !.thanks_count      = s.thanks,
                !.crawled_at        = crawled_at]

\* The ON DUPLICATE KEY UPDATE part of the reply upsert.
UpdatedReplyRow(row, s, crawled_at) ==
    [row EXCEPT !.content      = s.content,
                !.thanks_count = s.thanks,
                !.crawled_at   = crawled_at]

ReplyUpsertRow(R, s, crawled_at) ==
    IF s.id \in DOMAIN R
    THEN PutRow(R, s.id, UpdatedReplyRow(R[s.id], s, crawled_at))
    ELSE PutRow(R, s.id, NewReplyRow(s, crawled_at))

\* insert_or_update_reply: a refused row raises and nothing is written.
InsertOrUpdateReplyOp(R, topics, r, crawled_at) ==
    IF ReplyRowAccepted(SanitizeReply(r), topics)
    THEN ReplyUpsertRow(R, SanitizeReply(r), crawled_at)
    ELSE R

RECURSIVE ReplyExecuteMany(_, _, _)
ReplyExecuteMany(R, batch, crawled_at) ==
    IF batch = <<>> THEN R
    ELSE ReplyExecuteMany(ReplyUpsertRow(R, Head(batch), crawled_at), Tail(batch), crawled_at)

\* The except branch of a chunk: every reply of the chunk on its own, the
\* ones that are refused logged and skipped.
RECURSIVE ReplyOneByOne(_, _, _, _)
ReplyOneByOne(R, topics, batch, crawled_at) ==
    IF batch = <<>> THEN R
    ELSE ReplyOneByOne(InsertOrUpdateReplyOp(R, topics, Head(batch), crawled_at),
                       topics, Tail(batch), crawled_at)

ReplyChunkSize == 500

\* batch_insert_or_update_replies: the sanitized replies in chunks of 500,
\* each chunk one executemany and one commit, a failed chunk one by one.
RECURSIVE ReplyChunks(_, _, _, _)
ReplyChunks(R, topics, sanitized, crawled_at) ==
    IF sanitized = <<>> THEN R
    ELSE LET n     == Min(ReplyChunkSize, Len(sanitized))
             chunk == SubSeq(sanitized, 1, n)
             rest  == SubSeq(sanitized, n + 1, Len(sanitized))
             ok    == \A i \in 1..n : ReplyRowAccepted(chunk[i], topics)
             R1    == IF ok THEN ReplyExecuteMany(R, chunk, crawled_at)
                      ELSE ReplyOneByOne(R, topics, chunk, crawled_at)
         IN  ReplyChunks(R1, topics, rest, crawled_at)

BatchInsertOrUpdateRepliesOp(R, topics, batch, crawled_at) ==
    ReplyChunks(R, topics, [i \in 1..Len(batch) |-> SanitizeReply(batch[i])], crawled_at)

(***************************************************************************)
(* The scoring engine.  MySQL evaluates the expression of                  *)
(* update_hotness_scores over exact-value (DECIMAL) operands: the weights  *)
(* and the ceiling arrive as literals with one decimal, the timestamps as  *)
(* integers.  A score is kept as whole and frac, frac counting the four    *)
(* decimals of the DECIMAL(10, 4) column; a weight is kept in tenths.      *)
(***************************************************************************)
DecLeq(x, y) == x.whole < y.whole \/ (x.whole = y.whole /\ x.frac <= y.frac)

\* The engine divides exact values into a fraction of whole nine-digit
\* words: the quotient of two integers carries nine decimals, cut off.
Billion == 1000 * 1000 * 1000

\* age / window in billionths, for age < window: long division, three
\* decimals at a time.
Quotient9(age, window) ==
    LET g1 == (age * 1000) \div window
        r1 == (age * 1000) % window
        g2 == (r1 * 1000) \div window
        r2 == (r1 * 1000) % window
        g3 == (r2 * 1000) \div window
    IN  g1 * 1000000 + g2 * 1000 + g3

\* x * factor9 / 10^10 rounded half up to the four decimals of the column,
\* for x in tenths and factor9 in billionths: the product in limbs of four
\* digits.
StoredProduct(x, factor9) ==
    LET x0 == x % 10000
        x1 == x \div 10000
        f0 == factor9 % 10000
        f1 == (factor9 \div 10000) % 10000
        f2 == factor9 \div 100000000
        s0 == x0 * f0
        s1 == x0 * f1 + x1 * f0 + (s0 \div 10000)
        s2 == x0 * f2 + x1 * f1 + (s1 \div 10000)
        s3 == x1 * f2 + (s2 \div 10000)
        p1 == s1 % 10000
        p2 == s2 % 10000
        whole == s3 * 100 + (p2 \div 100)
        f  == (p2 % 100) * 100 + (p1 \div 100)
        f4 == IF p1 % 100 >= 50 THEN f + 1 ELSE f
    IN  IF f4 = 10000 THEN Dec(whole + 1, 0) ELSE Dec(whole, f4)

DefaultReplyWeight10 == 50
DefaultThanksWeight10 == 30
DefaultTimeDecayHours == 168
DefaultMaxScoreWhole == 999999

DefaultHotnessParams ==
    [ reply_weight10   |-> DefaultReplyWeight10,
      thanks_weight10  |-> DefaultThanksWeight10,
      time_decay_hours |-> DefaultTimeDecayHours,
      max_score        |-> Dec(DefaultMaxScoreWhole, 0) ]

\* A second parameter set: a one-hour window and a low ceiling.
SteepHotnessParams ==
    [ reply_weight10   |-> 15,
      thanks_weight10  |-> 5,
      time_decay_hours |-> 1,
      max_score        |-> Dec(12, 0) ]

\* The decay without its floor: 1.0 - age / window, which reaches zero.
DecayFactor9_NoFloor(age, window) ==
    IF age >= window THEN 0 ELSE Billion - Quotient9(age, window)

\* A decay that grows with the age instead of shrinking.
DecayFactor9_Growing(age, window) ==
    IF age >= window THEN Billion
    ELSE Max(Billion \div 10, Quotient9(age, window))

\* GREATEST(0.1, 1.0 - ((now - last_touched_timestamp) / (hours * 3600))),
\* in billionths.
DecayFactor9(age, window) ==
    IF age >= window THEN Billion \div 10
    ELSE Max(Billion \div 10, Billion - Quotient9(age, window))

\* A variant without the time-decay factor.
HotnessSql_NoDecay(row, p, current_timestamp) ==
    IF row.last_touched_timestamp = NULL THEN NullScore
    ELSE LET raw10   == row.replies * p.reply_weight10
                        + row.total_thanks_count * p.thanks_weight10
             product == StoredProduct(raw10, Billion)
         IN  IF DecLeq(product, p.max_score) THEN product ELSE p.max_score

\* LEAST((replies * %s + total_thanks_count * %s) *
\*       GREATEST(0.1, 1.0 - ((%s - last_touched_timestamp) / (%s * 3600))), %s)
\* GREATEST, the product and LEAST of a NULL are NULL.
HotnessSql(row, p, current_timestamp) ==
    IF row.last_touched_timestamp = NULL THEN NullScore
    ELSE LET raw10   == row.replies * p.reply_weight10
                        + row.total_thanks_count * p.thanks_weight10
             window  == p.time_decay_hours * 3600
             age     == current_timestamp - row.last_touched_timestamp
             decay9  == DecayFactor9(age, window)
             product == StoredProduct(raw10, decay9)
         IN  IF DecLeq(product, p.max_score) THEN product ELSE p.max_score

\* "if topic_ids:" an id list that is None or empty selects every thread.
NoIds == {NULL}

TargetedRows(T, topic_ids) ==
    IF topic_ids = NoIds \/ topic_ids = {} THEN DOMAIN T ELSE DOMAIN T \cap topic_ids

\* update_hotness_scores
UpdateHotnessScoresOp(T, topic_ids, p, current_timestamp) ==
    [i \in DOMAIN T |->
        IF i \in TargetedRows(T, topic_ids)
        THEN [T[i] EXCEPT !.hotness_score = HotnessSql(T[i], p, current_timestamp)]
        ELSE T[i]]

\* A total over every stored reply, whatever its thread.
ThanksOfTopic_AllReplies(R, id) ==
    LET thanks(r) == IF r \in DOMAIN R THEN R[r].thanks_count ELSE 0
    IN  thanks(1) + thanks(2)

\* A variant that adds the sum to the total already stored.
UpdateTotalThanksOp_Accumulating(T, R, topic_ids) ==
    [i \in DOMAIN T |->
        IF topic_ids = {NULL} \/ topic_ids = {} \/ i \in topic_ids
        THEN [T[i] EXCEPT !.total_thanks_count =
                 @ + (LET thanks(r) == IF r \in DOMAIN R /\ R[r].topic_id = i
                                       THEN R[r].thanks_count ELSE 0
                      IN  thanks(1) + thanks(2))]
        ELSE T[i]]

RECURSIVE SumThanks(_, _)
SumThanks(R, ids) ==
    IF ids = {} THEN 0
    ELSE LET i == CHOOSE x \in ids : TRUE
         IN  R[i].thanks_count + SumThanks(R, ids \ {i})

\* SELECT COALESCE(SUM(thanks_count), 0) FROM v2ex_replies WHERE topic_id = id
ThanksOfTopic(R, id) == SumThanks(R, {i \in DOMAIN R : R[i].topic_id = id})

\* update_total_thanks
UpdateTotalThanksOp(T, R, topic_ids) ==
    [i \in DOMAIN T |->
        IF i \in TargetedRows(T, topic_ids)
        THEN [T[i] EXCEPT !.total_thanks_count = ThanksOfTopic(R, i)]
        ELSE T[i]]

(***************************************************************************)
(* SpecTopics: the thread table under its two upserts.  A record is stored *)
(* at the moment it was built, so its timestamps are the clock's.          *)
(***************************************************************************)
TopicDicts(ts) == { TopicDict(id, shape, ts) : id \in ThreadIds, shape \in TopicShapes }

TopicBatches(ts) ==
    {<<>>} \cup { <<d>> : d \in TopicDicts(ts) }
           \cup { <<d, e>> : d \in TopicDicts(ts), e \in TopicDicts(ts) }

dbVars == <<v2ex_topics, v2ex_replies, v2ex_users, now, lastOp, lastArgs>>

filterVars == <<listed, kept>>

pipeVars ==
    <<pipeline_topics, max_concurrent_replies, raiser, worker, processed_count, failed_count,
      current_batch_topics, current_batch_replies, current_batch_users, all_replies,
      flush, returned, fetch_count, writes>>

crawlVars ==
    <<max_concurrent_nodes, node_results, failed_sections, crawl_result, store0, serial_run>>

fetchVars ==
    <<max_retries, max_pages, pc, page, attempt, responses, soup, page_results,
      all_topics, detail>>

parseVars == <<reply_cells, parse_topic_id, parsed_runs>>

reportVars == <<reports, notion_pages, llm_result, report_results>>

lockVars == <<lock, reg, appended>>

backoffVars == <<waits>>

maintVars == <<maintenance, maintenance_log>>

rateVars == <<last_request_time, coroutine, request_starts>>

extraVars == <<backoffVars, maintVars, rateVars>>

restVars == <<parseVars, reportVars, lockVars, extraVars>>

vars == <<dbVars, filterVars, pipeVars, crawlVars, fetchVars, restVars>>

Pending == [pending |-> TRUE]

NoResult == [returned |-> FALSE]

NoRun == [done |-> FALSE]

CrawlIdle ==
    /\ max_concurrent_nodes = 1
    /\ node_results = <<>>
    /\ failed_sections = {}
    /\ crawl_result = NoResult
    /\ store0 = <<>>
    /\ serial_run = NoRun

NoFlush == [attempted |-> FALSE]

PipeIdle ==
    /\ pipeline_topics = <<>>
    /\ max_concurrent_replies = 1
    /\ raiser = 0
    /\ worker = <<>>
    /\ processed_count = 0
    /\ failed_count = 0
    /\ current_batch_topics = <<>>
    /\ current_batch_replies = <<>>
    /\ current_batch_users = <<>>
    /\ all_replies = <<>>
    /\ flush = NoFlush
    /\ returned = FALSE
    /\ fetch_count = <<>>
    /\ writes = <<>>

FilterIdle == listed = <<>> /\ kept = <<>>

NoDetail == [done |-> FALSE]

NoLlmResult == [called |-> FALSE]

ParseIdle == reply_cells = <<>> /\ parse_topic_id = 0 /\ parsed_runs = <<>>

ReportIdle ==
    /\ reports = <<>>
    /\ notion_pages = <<>>
    /\ llm_result = NoLlmResult
    /\ report_results = <<>>

LockIdle == lock = 0 /\ reg = <<>> /\ appended = <<>>

BackoffIdle == waits = <<>>

NoMaintenance == [pc |-> "idle"]

MaintIdle == maintenance = NoMaintenance /\ maintenance_log = <<>>

RateIdle == last_request_time = 0 /\ coroutine = <<>> /\ request_starts = <<>>

ExtraIdle == BackoffIdle /\ MaintIdle /\ RateIdle

RestIdle == ParseIdle /\ ReportIdle /\ LockIdle /\ ExtraIdle

FetchIdle ==
    /\ max_retries = 0
    /\ max_pages = 0
    /\ pc = "idle"
    /\ page = 0
    /\ attempt = 0
    /\ responses = <<>>
    /\ soup = "None"
    /\ page_results = <<>>
    /\ all_topics = 0
    /\ detail = NoDetail

\* Thread 1 and an endorsed reply of it, stored at clock 0 and scored: what
\* a crawl followed by the two scoring operations leaves.
ScoredReplies ==
    BatchInsertOrUpdateRepliesOp(EmptyTable,
        TopicExecuteMany(EmptyTable, <<TopicDict(1, 1, 0)>>, 0),
        <<ReplyDict(1, 1, 2, 0)>>, 0)

ScoredTopics ==
    UpdateHotnessScoresOp(
        UpdateTotalThanksOp(TopicExecuteMany(EmptyTable, <<TopicDict(1, 1, 0)>>, 0),
                            ScoredReplies, NoIds),
        NoIds, DefaultHotnessParams, 0)

InitTopics ==
    /\ \/ v2ex_topics = EmptyTable /\ v2ex_replies = EmptyTable
       \/ v2ex_topics = ScoredTopics /\ v2ex_replies = ScoredReplies
    /\ v2ex_users = {}
    /\ now = 0
    /\ lastOp = "init"
    /\ lastArgs = <<>>
    /\ FilterIdle
    /\ PipeIdle
    /\ CrawlIdle
    /\ FetchIdle
    /\ RestIdle

Tick ==
    /\ now < MaxClock
    /\ now' = now + 1
    /\ lastOp' = "tick"
    /\ UNCHANGED <<v2ex_topics, v2ex_replies, v2ex_users, lastArgs, filterVars, fetchVars, restVars, pipeVars, crawlVars>>

InsertOrUpdateTopic ==
    \E d \in TopicDicts(now) :
        /\ v2ex_topics' = InsertOrUpdateTopicOp(v2ex_topics, d, now)
        /\ lastOp' = "insert_or_update_topic"
        /\ UNCHANGED <<v2ex_replies, v2ex_users, now, lastArgs, filterVars, fetchVars, restVars, pipeVars, crawlVars>>

BatchInsertOrUpdateTopics ==
    \E batch \in TopicBatches(now) :
        /\ v2ex_topics' = BatchInsertOrUpdateTopicsOp(v2ex_topics, batch, now)
        /\ lastOp' = "batch_insert_or_update_topics"
        /\ UNCHANGED <<v2ex_replies, v2ex_users, now, lastArgs, filterVars, fetchVars, restVars, pipeVars, crawlVars>>

NextTopics == Tick \/ InsertOrUpdateTopic \/ BatchInsertOrUpdateTopics

SpecTopics == InitTopics /\ [][NextTopics]_vars

(***************************************************************************)
(* SpecReplies: the reply table under its two upserts, over a thread table *)
(* that holds threads 1 and 2; thread 3 is not stored.                     *)
(***************************************************************************)
ReplyParents == {1, 2, 3}

ReplyDicts(ts) ==
    { ReplyDict(id, t, shape, ts) : id \in ReplyIds, t \in ReplyParents, shape \in ReplyShapes }

ReplyBatches(ts) ==
    {<<>>} \cup { <<r>> : r \in ReplyDicts(ts) }
           \cup { <<r, q>> : r \in ReplyDicts(ts), q \in ReplyDicts(ts) }

InitReplies ==
    /\ v2ex_topics = TopicExecuteMany(EmptyTable, <<TopicDict(1, 1, 0), TopicDict(2, 1, 0)>>, 0)
    /\ v2ex_replies = EmptyTable
    /\ v2ex_users = {}
    /\ now = 0
    /\ lastOp = "init"
    /\ lastArgs = <<>>
    /\ FilterIdle
    /\ PipeIdle
    /\ CrawlIdle
    /\ FetchIdle
    /\ RestIdle

InsertOrUpdateReply ==
    \E r \in ReplyDicts(now) :
        /\ v2ex_replies' = InsertOrUpdateReplyOp(v2ex_replies, v2ex_topics, r, now)
        /\ lastOp' = "insert_or_update_reply"
        /\ UNCHANGED <<v2ex_topics, v2ex_users, now, lastArgs, filterVars, fetchVars, restVars, pipeVars, crawlVars>>

BatchInsertOrUpdateReplies ==
    \E batch \in ReplyBatches(now) :
        /\ v2ex_replies' = BatchInsertOrUpdateRepliesOp(v2ex_replies, v2ex_topics, batch, now)
        /\ lastOp' = "batch_insert_or_update_replies"
        /\ UNCHANGED <<v2ex_topics, v2ex_users, now, lastArgs, filterVars, fetchVars, restVars, pipeVars, crawlVars>>

NextReplies == Tick \/ InsertOrUpdateReply \/ BatchInsertOrUpdateReplies

SpecReplies == InitReplies /\ [][NextReplies]_vars

(***************************************************************************)
(* SpecHot: the two scoring operations over stored threads and replies.    *)
(* The tables are the ones the upserts leave at clock 0; the clock then    *)
(* moves to one hour and to seven days.                                    *)
(***************************************************************************)
HotClock == {0, 3600, 604800}

HotTopicTables ==
    { TopicExecuteMany(EmptyTable, b, 0) :
        b \in { <<TopicDict(1, 1, 0), TopicDict(2, 1, 0)>>,
                <<TopicDict(1, 1, 0), TopicDict(2, 3, 0)>>,
                <<TopicDict(1, 2, 0)>> } }

HotReplyBatches ==
    { <<>>,
      <<ReplyDict(1, 1, 2, 0)>>,
      <<ReplyDict(1, 1, 2, 0), ReplyDict(2, 2, 2, 0)>>,
      <<ReplyDict(1, 1, 1, 0), ReplyDict(2, 1, 2, 0)>>,
      <<ReplyDict(1, 1, 2, 0), ReplyDict(2, 1, 2, 0)>> }

IdLists == {NoIds, {}, {1}, {2}, {1, 2}}

HotnessParamSets == {DefaultHotnessParams, SteepHotnessParams}

InitHot ==
    /\ v2ex_topics \in HotTopicTables
    /\ \E b \in HotReplyBatches :
           v2ex_replies = BatchInsertOrUpdateRepliesOp(EmptyTable, v2ex_topics, b, 0)
    /\ v2ex_users = {}
    /\ now = 0
    /\ lastOp = "init"
    /\ lastArgs = <<>>
    /\ FilterIdle
    /\ PipeIdle
    /\ CrawlIdle
    /\ FetchIdle
    /\ RestIdle

TickHot ==
    \E t \in HotClock :
        /\ t > now
        /\ now' = t
        /\ lastOp' = "tick"
        /\ lastArgs' = <<>>
        /\ UNCHANGED <<v2ex_topics, v2ex_replies, v2ex_users, filterVars, fetchVars, restVars, pipeVars, crawlVars>>

UpdateTotalThanks ==
    \E ids \in IdLists :
        /\ v2ex_topics' = UpdateTotalThanksOp(v2ex_topics, v2ex_replies, ids)
        /\ lastOp' = "update_total_thanks"
        /\ lastArgs' = [topic_ids |-> ids]
        /\ UNCHANGED <<v2ex_replies, v2ex_users, now, filterVars, fetchVars, restVars, pipeVars, crawlVars>>

UpdateHotnessScores ==
    \E ids \in IdLists, p \in HotnessParamSets :
        /\ v2ex_topics' = UpdateHotnessScoresOp(v2ex_topics, ids, p, now)
        /\ lastOp' = "update_hotness_scores"
        /\ lastArgs' = [topic_ids |-> ids, params |-> p]
        /\ UNCHANGED <<v2ex_replies, v2ex_users, now, filterVars, fetchVars, restVars, pipeVars, crawlVars>>

NextHot == TickHot \/ UpdateTotalThanks \/ UpdateHotnessScores

SpecHot == InitHot /\ [][NextHot]_vars

(***************************************************************************)
(* SpecFilter: _filter_topics_to_update over a stored thread table.  The   *)
(* table is one the upserts leave, each row stored at some clock value,    *)
(* with or without a last-activity timestamp.                              *)
(***************************************************************************)
\* get_topics_last_touched_batch: the rows whose timestamp IS NULL are left
\* out of the dictionary.
GetTopicsLastTouchedBatch(T, topic_ids) ==
    [i \in {j \in topic_ids \cap DOMAIN T : T[j].last_touched_timestamp # NULL}
        |-> T[i].last_touched_timestamp]

\* Python truth of a number or None
Truthy(x) == x # NULL /\ x # 0

\* A variant that also keeps a thread whose scraped timestamp equals the
\* stored one.
FilterTopicsToUpdateOp_NotOlder(T, topics) ==
    LET topic_ids == {topics[i].id : i \in {j \in 1..Len(topics) : Truthy(topics[j].id)}}
        db_last_touched_map == GetTopicsLastTouchedBatch(T, topic_ids)
        should_update(topic) ==
            /\ Truthy(topic.id)
            /\ \/ topic.id \notin DOMAIN db_last_touched_map
               \/ /\ Truthy(topic.last_touched)
                  /\ topic.last_touched >= db_last_touched_map[topic.id]
    IN  SelectSeq(topics, should_update)

\* _filter_topics_to_update
FilterTopicsToUpdateOp(T, topics) ==
    LET topic_ids == {topics[i].id : i \in {j \in 1..Len(topics) : Truthy(topics[j].id)}}
        db_last_touched_map == GetTopicsLastTouchedBatch(T, topic_ids)
        should_update(topic) ==
            /\ Truthy(topic.id)
            /\ \/ topic.id \notin DOMAIN db_last_touched_map
               \/ /\ Truthy(topic.last_touched)
                  /\ topic.last_touched > db_last_touched_map[topic.id]
    IN  SelectSeq(topics, should_update)

ListedShapes == {1, 3}

StoredRowChoices ==
    {<<>>} \cup { <<shape, ts>> : shape \in ListedShapes, ts \in 0..MaxClock }

StoredTables ==
    { TopicExecuteMany(
          TopicExecuteMany(EmptyTable,
              IF c1 = <<>> THEN <<>> ELSE <<TopicDict(1, c1[1], c1[2])>>,
              IF c1 = <<>> THEN 0 ELSE c1[2]),
          IF c2 = <<>> THEN <<>> ELSE <<TopicDict(2, c2[1], c2[2])>>,
          IF c2 = <<>> THEN 0 ELSE c2[2]) :
        c1 \in StoredRowChoices, c2 \in StoredRowChoices }

ListedDicts ==
    { TopicDict(id, shape, ts) : id \in ThreadIds, shape \in ListedShapes, ts \in 0..MaxClock }

Listings ==
    {<<>>} \cup { <<d>> : d \in ListedDicts } \cup { <<d, e>> : d \in ListedDicts, e \in ListedDicts }

InitFilter ==
    /\ v2ex_topics \in StoredTables
    /\ v2ex_replies = EmptyTable
    /\ v2ex_users = {}
    /\ now = MaxClock
    /\ lastOp = "init"
    /\ lastArgs = <<>>
    /\ FilterIdle
    /\ PipeIdle
    /\ CrawlIdle
    /\ FetchIdle
    /\ RestIdle

FilterTopicsToUpdate ==
    \E topics \in Listings :
        /\ listed' = topics
        /\ kept' = FilterTopicsToUpdateOp(v2ex_topics, topics)
        /\ lastOp' = "_filter_topics_to_update"
        /\ UNCHANGED <<v2ex_topics, v2ex_replies, v2ex_users, now, lastArgs, pipeVars, crawlVars, fetchVars, restVars>>

NextFilter == FilterTopicsToUpdate

SpecFilter == InitFilter /\ [][NextFilter]_vars

(***************************************************************************)
(* SpecPipe: _get_topic_content_and_replies_batch_threaded over a list of  *)
(* threads the filter kept, on an empty store.  The executor starts the    *)
(* workers in list order, at most max_workers at a time; a worker's        *)
(* locked block is one step.  At most one worker raises, and at most one   *)
(* thread of the list is a record the table refuses.                       *)
(***************************************************************************)
PipeBatchSize == 10

MaxWorkersCap == 3

ConcurrencyBounds == {1, 2, 4}

\* The runs explored: up to three threads under every bound, and a list one
\* longer than a batch under the bound 1.
PipeRuns ==
    { <<n, c>> : n \in 0..3, c \in ConcurrencyBounds } \cup { <<PipeBatchSize + 1, 1>> }

\* The detail page of a thread: body and one endorsed reply, body only, or
\* a fetch that failed and came back empty ({'content': '', 'replies': []}).
DetailPage(topic_id, ts) ==
    CASE topic_id % 3 = 1 ->
            [content |-> Str(7, 40),
             replies |-> <<ReplyDict(topic_id * 1000 + 1, topic_id, 2, ts)>>]
      [] topic_id % 3 = 2 -> [content |-> Str(7, 40), replies |-> <<>>]
      [] OTHER -> [content |-> EmptyStr, replies |-> <<>>]

\* {'username': reply['member_username']} for the replies that carry one
ReplyUsers(replies) == [i \in 1..Len(replies) |-> replies[i].member_username]

\* batch_insert_users_by_username: INSERT IGNORE of the distinct names,
\* cut to 50 characters.
BatchInsertUsersByUsernameOp(U, usernames) ==
    U \cup { Prefix(usernames[i], UsernameMaxChars) : i \in 1..Len(usernames) }

\* One write of a run: the flush it belongs to (0: the saving at the end
\* of the run), the table, and whether the statement went through.
Write(k, table, ok) == [flush |-> k, table |-> table, ok |-> ok]

\* The pipeline flushes attempted so far
FlushCount(w) == Cardinality({i \in DOMAIN w : w[i].flush > 0 /\ w[i].table = "topics"})

\* A flush that writes the replies before the threads.
FlushWrites_RepliesFirst(k, ok) ==
    <<Write(k, "replies", TRUE), Write(k, "topics", ok), Write(k, "users", TRUE)>>

\* The flush of process_single_topic: batch_insert_or_update_topics, then
\* batch_insert_or_update_replies, then batch_insert_users_by_username, in
\* one try block that an exception of the first leaves.
FlushWrites(k, ok) ==
    IF ok THEN <<Write(k, "topics", TRUE), Write(k, "replies", TRUE), Write(k, "users", TRUE)>>
    ELSE <<Write(k, "topics", FALSE)>>

max_workers == Min(max_concurrent_replies, MaxWorkersCap)

Running == {i \in DOMAIN worker : worker[i] = "running"}

InitPipe ==
    /\ v2ex_topics = EmptyTable
    /\ v2ex_replies = EmptyTable
    /\ v2ex_users = {}
    /\ now = 1
    /\ lastOp = "init"
    /\ lastArgs = <<>>
    /\ FilterIdle
    /\ \E run \in PipeRuns : \E refused \in {0, 1, run[1]} :
          /\ pipeline_topics =
                [i \in 1..run[1] |-> TopicDict(i, IF i = refused THEN 4 ELSE 1, 1)]
          /\ worker = [i \in 1..run[1] |-> "queued"]
          /\ raiser \in 0..run[1]
          /\ max_concurrent_replies = run[2]
          /\ fetch_count = [i \in 1..run[1] |-> 0]
    /\ writes = <<>>
    /\ processed_count = 0
    /\ failed_count = 0
    /\ current_batch_topics = <<>>
    /\ current_batch_replies = <<>>
    /\ current_batch_users = <<>>
    /\ all_replies = <<>>
    /\ flush = NoFlush
    /\ returned = FALSE
    /\ CrawlIdle
    /\ FetchIdle
    /\ RestIdle

\* executor.submit: the pool takes the queued threads in list order while a
\* worker is free.
StartWorker ==
    \E i \in DOMAIN worker :
        /\ worker[i] = "queued"
        /\ \A j \in 1..(i - 1) : worker[j] # "queued"
        /\ Cardinality(Running) < max_workers
        /\ worker' = [worker EXCEPT ![i] = "running"]
        /\ lastOp' = "submit"
        /\ UNCHANGED <<crawlVars, v2ex_topics, v2ex_replies, v2ex_users, now, lastArgs, filterVars, fetchVars, restVars,
                       pipeline_topics, max_concurrent_replies, raiser, processed_count,
                       failed_count, current_batch_topics, current_batch_replies,
                       current_batch_users, all_replies, flush, returned, fetch_count,
                       writes>>

\* process_single_topic, the try branch: the fetch, then under the lock the
\* count, the buffers and, when due, the flush.
WorkerSucceeds ==
    \E i \in Running :
        /\ i # raiser
        /\ LET result  == DetailPage(pipeline_topics[i].id, now)
               topic   == [pipeline_topics[i] EXCEPT !.content = result.content]
               count   == processed_count + 1
               bt      == Append(current_batch_topics, topic)
               br      == current_batch_replies \o result.replies
               bu      == current_batch_users \o ReplyUsers(result.replies)
               due     == Len(bt) >= PipeBatchSize \/ count = Len(pipeline_topics)
               \* batch_insert_or_update_topics raises on a refused row and
               \* the except branch of the flush leaves the rest undone
               ok      == TopicBatchAccepted(bt)
               T1      == BatchInsertOrUpdateTopicsOp(v2ex_topics, bt, now)
           IN  /\ processed_count' = count
               /\ all_replies' = all_replies \o result.replies
               /\ pipeline_topics' = [pipeline_topics EXCEPT ![i] = topic]
               /\ IF due /\ ok
                  THEN /\ v2ex_topics' = T1
                       /\ v2ex_replies' = BatchInsertOrUpdateRepliesOp(v2ex_replies, T1, br, now)
                       /\ v2ex_users' = BatchInsertUsersByUsernameOp(v2ex_users, bu)
                       /\ current_batch_topics' = <<>>
                       /\ current_batch_replies' = <<>>
                       /\ current_batch_users' = <<>>
                  ELSE /\ UNCHANGED <<v2ex_topics, v2ex_replies, v2ex_users>>
                       /\ current_batch_topics' = bt
                       /\ current_batch_replies' = br
                       /\ current_batch_users' = bu
               /\ flush' = IF due
                           THEN [attempted |-> TRUE, failed |-> ~ok, topics |-> bt, replies |-> br]
                           ELSE flush
               /\ writes' = IF due THEN writes \o FlushWrites(FlushCount(writes) + 1, ok)
                            ELSE writes
        /\ fetch_count' = [fetch_count EXCEPT ![i] = @ + 1]
        /\ worker' = [worker EXCEPT ![i] = "done"]
        /\ lastOp' = "process_single_topic"
        /\ UNCHANGED <<crawlVars, now, lastArgs, filterVars, fetchVars, restVars, max_concurrent_replies, raiser,
                       failed_count, returned>>

\* process_single_topic, the except branch, first lock: the two counters.
WorkerRaises ==
    \E i \in Running :
        /\ i = raiser
        /\ failed_count' = failed_count + 1
        /\ processed_count' = processed_count + 1
        /\ worker' = [worker EXCEPT ![i] = "counted"]
        /\ fetch_count' = [fetch_count EXCEPT ![i] = @ + 1]
        /\ lastOp' = "process_single_topic_except"
        /\ UNCHANGED <<crawlVars, v2ex_topics, v2ex_replies, v2ex_users, now, lastArgs, filterVars, fetchVars, restVars,
                       pipeline_topics, max_concurrent_replies, raiser,
                       current_batch_topics, current_batch_replies, current_batch_users,
                       all_replies, flush, returned, writes>>

\* process_single_topic, the except branch, second lock: the thread joins
\* the buffer with an empty body; nothing is flushed here.
WorkerAppendsFailed ==
    \E i \in DOMAIN worker :
        /\ worker[i] = "counted"
        /\ LET topic == [pipeline_topics[i] EXCEPT !.content = EmptyStr]
           IN  /\ pipeline_topics' = [pipeline_topics EXCEPT ![i] = topic]
               /\ current_batch_topics' = Append(current_batch_topics, topic)
        /\ worker' = [worker EXCEPT ![i] = "done"]
        /\ lastOp' = "process_single_topic_append"
        /\ UNCHANGED <<crawlVars, v2ex_topics, v2ex_replies, v2ex_users, now, lastArgs, filterVars, fetchVars, restVars,
                       max_concurrent_replies, raiser, processed_count, failed_count,
                       current_batch_replies, current_batch_users, all_replies, flush,
                       returned, fetch_count, writes>>

\* The with block of the executor ends when every worker is done.
PipelineReturns ==
    /\ ~returned
    /\ \A i \in DOMAIN worker : worker[i] = "done"
    /\ returned' = TRUE
    /\ lastOp' = "return"
    /\ UNCHANGED <<crawlVars, v2ex_topics, v2ex_replies, v2ex_users, now, lastArgs, filterVars, fetchVars, restVars,
                   pipeline_topics, max_concurrent_replies, raiser, worker,
                   processed_count, failed_count, current_batch_topics,
                   current_batch_replies, current_batch_users, all_replies, flush,
                   fetch_count, writes>>

NextPipe ==
    StartWorker \/ WorkerSucceeds \/ WorkerRaises \/ WorkerAppendsFailed \/ PipelineReturns

SpecPipe == InitPipe /\ [][NextPipe]_vars

(***************************************************************************)
(* SpecCrawl: crawl_topics_by_nodes over two sections, first in serial     *)
(* mode and then, from the same store and over the same pages, in          *)
(* concurrent mode.  A section's crawl is one step; the workers inside it  *)
(* are SpecPipe's.  Section 1 lists thread 1, section 2 lists thread 2.    *)
(***************************************************************************)
Sections == {1, 2}

\* A listing whose entries carry the thread's own last activity, which does
\* not move with the clock.
Listing_ActivityTime(section, ts) ==
    IF section = 1 THEN <<TopicDict(1, 1, 1)>> ELSE <<TopicDict(2, 5, 1)>>

\* crawl_node_with_pagination: the listing entries of a section
Listing(section, ts) ==
    IF section = 1 THEN <<TopicDict(1, 1, ts)>> ELSE <<TopicDict(2, 5, ts)>>

\* topic['member'], the {'username': ...} of the thread's author
TopicMember(topic) == Str(topic.member_username, 6)

Store(T, R, U) == [topics |-> T, replies |-> R, users |-> U]

NodeResult(t, u, r) == [topics_to_update |-> t, all_users |-> u, all_replies |-> r]

\* The return value of the except branch of a section's crawl.
EmptyNodeResult == NodeResult(<<>>, <<>>, <<>>)

RECURSIVE DetailReplies(_, _)
DetailReplies(kept_topics, ts) ==
    IF kept_topics = <<>> THEN <<>>
    ELSE DetailPage(Head(kept_topics).id, ts).replies \o DetailReplies(Tail(kept_topics), ts)

\* The threaded pipeline over a list shorter than a batch, no worker
\* raising: every body is fetched and one flush stores threads, replies and
\* the replies' authors.
ThreadedPipeline(st, kept_topics, ts) ==
    LET fetched == [i \in 1..Len(kept_topics) |->
                       [kept_topics[i] EXCEPT !.content = DetailPage(kept_topics[i].id, ts).content]]
        replies == DetailReplies(kept_topics, ts)
        T1      == BatchInsertOrUpdateTopicsOp(st.topics, fetched, ts)
    IN  [ store  |-> IF TopicBatchAccepted(fetched)
                     THEN Store(T1,
                                BatchInsertOrUpdateRepliesOp(st.replies, T1, replies, ts),
                                BatchInsertUsersByUsernameOp(st.users, ReplyUsers(replies)))
                     ELSE st,
          topics |-> fetched,
          all_replies |-> replies,
          all_users   |-> ReplyUsers(replies) ]

\* _crawl_single_node_sync without an exception
CrawlSingleNodeSyncOp(st, section, ts) ==
    LET node_topics      == Listing(section, ts)
        topics_to_update == FilterTopicsToUpdateOp(st.topics, node_topics)
        piped            == ThreadedPipeline(st, topics_to_update, ts)
        members          == [i \in 1..Len(piped.topics) |-> TopicMember(piped.topics[i])]
    IN  [ store  |-> piped.store,
          result |-> NodeResult(piped.topics, piped.all_users \o members, piped.all_replies) ]

\* _crawl_single_node_async without an exception: no body is fetched, the
\* replies only of the threads listed with a reply count above 0, and no
\* reply carries a 'member' key.
CrawlSingleNodeAsyncOp(st, section, ts) ==
    LET node_topics         == Listing(section, ts)
        topics_to_update    == FilterTopicsToUpdateOp(st.topics, node_topics)
        has_replies(t)      == t.replies > 0
        topics_with_replies == SelectSeq(topics_to_update, has_replies)
        members == [i \in 1..Len(topics_to_update) |-> TopicMember(topics_to_update[i])]
    IN  NodeResult(topics_to_update, members, DetailReplies(topics_with_replies, ts))

\* The merge of the sections' results, in the order of the configured
\* sections.
RECURSIVE MergeResults_StopAtEmpty(_, _)
MergeResults_StopAtEmpty(results, section) ==
    IF section \notin DOMAIN results \/ results[section] = EmptyNodeResult
    THEN EmptyNodeResult
    ELSE LET rest == MergeResults_StopAtEmpty(results, section + 1)
         IN  NodeResult(results[section].topics_to_update \o rest.topics_to_update,
                        results[section].all_users \o rest.all_users,
                        results[section].all_replies \o rest.all_replies)

RECURSIVE MergeResults(_, _)
MergeResults(results, section) ==
    IF section \notin DOMAIN results THEN EmptyNodeResult
    ELSE LET rest == MergeResults(results, section + 1)
         IN  NodeResult(results[section].topics_to_update \o rest.topics_to_update,
                        results[section].all_users \o rest.all_users,
                        results[section].all_replies \o rest.all_replies)

\* insert_or_update_user of every distinct name
SaveUsers(U, users) == U \cup { Prefix(users[i], UsernameMaxChars) : i \in 1..Len(users) }

\* A saving that stores the users and nothing else.
SaveCrawledDataOp_UsersOnly(st, merged, ts) ==
    [ store  |-> Store(st.topics, st.replies, SaveUsers(st.users, merged.all_users)),
      result |-> [ returned       |-> TRUE,
                   topics_found   |-> Len(merged.topics_to_update),
                   topics_crawled |-> Len(merged.topics_to_update),
                   users_saved    |-> 0,
                   replies_saved  |-> Len(merged.all_replies),
                   success        |-> TRUE ] ]

\* _save_crawled_data: the users, then one batch upsert of every thread and
\* one of every reply; an exception of the thread upsert ends the saving.
SaveCrawledDataOp(st, merged, ts) ==
    LET U1 == SaveUsers(st.users, merged.all_users)
        ok == TopicBatchAccepted(merged.topics_to_update)
        T1 == BatchInsertOrUpdateTopicsOp(st.topics, merged.topics_to_update, ts)
        R1 == IF ok THEN BatchInsertOrUpdateRepliesOp(st.replies, T1, merged.all_replies, ts)
              ELSE st.replies
    IN  [ store  |-> Store(T1, R1, U1),
          result |-> [ returned       |-> TRUE,
                       topics_found   |-> Len(merged.topics_to_update),
                       topics_crawled |-> Len(merged.topics_to_update),
                       users_saved    |-> Cardinality({merged.all_users[i] :
                                                       i \in 1..Len(merged.all_users)}),
                       replies_saved  |-> Len(merged.all_replies),
                       success        |-> ok ] ]

\* The stores a run starts from: nothing stored; thread 1, its reply and
\* the reply's author stored by an earlier crawl; thread 2 stored with the
\* timestamp the listing now shows.
InitialStores ==
    { Store(EmptyTable, EmptyTable, {}),
      ThreadedPipeline(Store(EmptyTable, EmptyTable, {}), Listing(1, 0), 0).store,
      ThreadedPipeline(Store(EmptyTable, EmptyTable, {}), Listing(2, 1), 1).store }

CurrentStore == Store(v2ex_topics, v2ex_replies, v2ex_users)

InitCrawl ==
    /\ store0 \in InitialStores
    /\ v2ex_topics = store0.topics
    /\ v2ex_replies = store0.replies
    /\ v2ex_users = store0.users
    /\ now = 1
    /\ lastOp = "init"
    /\ lastArgs = <<>>
    /\ FilterIdle
    /\ PipeIdle
    /\ FetchIdle
    /\ RestIdle
    /\ max_concurrent_nodes = 1
    /\ node_results = [s \in Sections |-> Pending]
    /\ failed_sections = {}
    /\ crawl_result = NoResult
    /\ serial_run = NoRun

\* One iteration of the loop of _crawl_all_nodes_sync.  An exception before
\* the pipeline (listing, filter) or after it leaves the empty result.
CrawlSingleNodeSync ==
    \E section \in Sections : \E outcome \in {"ok", "raises", "raises_late"} :
        /\ max_concurrent_nodes = 1
        /\ node_results[section] = Pending
        /\ \A s \in Sections : s < section => node_results[s] # Pending
        /\ LET crawled == CrawlSingleNodeSyncOp(CurrentStore, section, now)
               st      == IF outcome = "raises" THEN CurrentStore ELSE crawled.store
           IN  /\ v2ex_topics' = st.topics
               /\ v2ex_replies' = st.replies
               /\ v2ex_users' = st.users
               /\ node_results' = [node_results EXCEPT ![section] =
                                      IF outcome = "ok" THEN crawled.result ELSE EmptyNodeResult]
        /\ failed_sections' = IF outcome = "ok" THEN failed_sections
                              ELSE failed_sections \cup {section}
        /\ lastOp' = "_crawl_single_node_sync"
        /\ UNCHANGED <<now, lastArgs, filterVars, fetchVars, restVars, pipeVars, max_concurrent_nodes,
                       crawl_result, store0, serial_run>>

\* One task of _crawl_all_nodes_async; the tasks finish in any order and
\* gather returns their results in the order of the sections.
CrawlSingleNodeAsync ==
    \E section \in Sections : \E outcome \in {"ok", "raises"} :
        /\ max_concurrent_nodes > 1
        /\ node_results[section] = Pending
        /\ node_results' = [node_results EXCEPT ![section] =
                               IF outcome = "ok"
                               THEN CrawlSingleNodeAsyncOp(CurrentStore, section, now)
                               ELSE EmptyNodeResult]
        /\ failed_sections' = IF outcome = "ok" THEN failed_sections
                              ELSE failed_sections \cup {section}
        /\ lastOp' = "_crawl_single_node_async"
        /\ UNCHANGED <<v2ex_topics, v2ex_replies, v2ex_users, now, lastArgs, filterVars, fetchVars, restVars,
                       pipeVars, max_concurrent_nodes, crawl_result, store0, serial_run>>

\* The end of crawl_topics_by_nodes: the merged lists go to
\* _save_crawled_data and its result is returned.
SaveCrawledData ==
    /\ crawl_result = NoResult
    /\ \A s \in Sections : node_results[s] # Pending
    /\ LET saved == SaveCrawledDataOp(CurrentStore, MergeResults(node_results, 1), now)
       IN  /\ v2ex_topics' = saved.store.topics
           /\ v2ex_replies' = saved.store.replies
           /\ v2ex_users' = saved.store.users
           /\ crawl_result' = saved.result
    /\ lastOp' = "_save_crawled_data"
    /\ UNCHANGED <<now, lastArgs, filterVars, fetchVars, restVars, pipeVars, max_concurrent_nodes,
                   node_results, failed_sections, store0, serial_run>>

\* The second run: the store is put back and the mode is switched.
RunConcurrent ==
    /\ max_concurrent_nodes = 1
    /\ crawl_result # NoResult
    /\ serial_run' = [done |-> TRUE, store |-> CurrentStore, result |-> crawl_result,
                      failed |-> failed_sections]
    /\ v2ex_topics' = store0.topics
    /\ v2ex_replies' = store0.replies
    /\ v2ex_users' = store0.users
    /\ max_concurrent_nodes' = 2
    /\ node_results' = [s \in Sections |-> Pending]
    /\ failed_sections' = {}
    /\ crawl_result' = NoResult
    /\ lastOp' = "run_concurrent"
    /\ UNCHANGED <<now, lastArgs, filterVars, fetchVars, restVars, pipeVars, store0>>

NextCrawl == CrawlSingleNodeSync \/ CrawlSingleNodeAsync \/ SaveCrawledData \/ RunConcurrent

SpecCrawl == InitCrawl /\ [][NextCrawl]_vars

(***************************************************************************)
(* SpecRerun: two serial crawls of the configured sections, one after the  *)
(* other, over the same store.  The listing pages are the same both times; *)
(* the wall clock may move at any moment.                                  *)
(***************************************************************************)
\* datetime.now() moves on
TickRerun ==
    /\ now < MaxClock
    /\ now' = now + 1
    /\ lastOp' = "tick"
    /\ UNCHANGED <<v2ex_topics, v2ex_replies, v2ex_users, lastArgs, filterVars, fetchVars, restVars,
                   pipeVars, crawlVars>>

\* crawl_topics_by_nodes is called a second time; the store is what the
\* first run left.
RunAgain ==
    /\ ~serial_run.done
    /\ crawl_result # NoResult
    /\ serial_run' = [done |-> TRUE, store |-> CurrentStore, result |-> crawl_result,
                      failed |-> failed_sections]
    /\ node_results' = [s \in Sections |-> Pending]
    /\ failed_sections' = {}
    /\ crawl_result' = NoResult
    /\ lastOp' = "crawl_topics_by_nodes"
    /\ UNCHANGED <<v2ex_topics, v2ex_replies, v2ex_users, now, lastArgs, filterVars,
                   fetchVars, restVars, pipeVars, max_concurrent_nodes, store0>>

NextRerun == TickRerun \/ CrawlSingleNodeSync \/ SaveCrawledData \/ RunAgain

SpecRerun == InitCrawl /\ [][NextRerun]_vars

(***************************************************************************)
(* SpecRun: the crawl of one section from the pipeline's start to the end  *)
(* of the run: the pipeline of SpecPipe, then what _crawl_single_node_sync *)
(* returns is saved by _save_crawled_data.                                 *)
(***************************************************************************)
\* _save_crawled_data: insert_or_update_user of every name, then the batch
\* upsert of the threads, then the one of the replies, in one try block.
SaveWrites(ok) ==
    <<Write(0, "users", TRUE), Write(0, "topics", ok)>>
        \o (IF ok THEN <<Write(0, "replies", TRUE)>> ELSE <<>>)

\* What the section's crawl hands to the saving: the threads with their
\* bodies, the authors of replies and threads, the replies.
PipelineResult ==
    NodeResult(pipeline_topics,
               ReplyUsers(all_replies)
                   \o [i \in 1..Len(pipeline_topics) |-> TopicMember(pipeline_topics[i])],
               all_replies)

SaveAfterPipeline ==
    /\ returned
    /\ crawl_result = NoResult
    /\ LET saved == SaveCrawledDataOp(CurrentStore, PipelineResult, now)
       IN  /\ v2ex_topics' = saved.store.topics
           /\ v2ex_replies' = saved.store.replies
           /\ v2ex_users' = saved.store.users
           /\ crawl_result' = saved.result
           /\ writes' = writes \o SaveWrites(saved.result.success)
    /\ lastOp' = "_save_crawled_data"
    /\ UNCHANGED <<now, lastArgs, filterVars, fetchVars, restVars,
                   pipeline_topics, max_concurrent_replies, raiser, worker, processed_count,
                   failed_count, current_batch_topics, current_batch_replies,
                   current_batch_users, all_replies, flush, returned, fetch_count,
                   max_concurrent_nodes, node_results, failed_sections, store0, serial_run>>

NextRun ==
    \/ StartWorker
    \/ WorkerSucceeds
    \/ WorkerRaises
    \/ WorkerAppendsFailed
    \/ PipelineReturns
    \/ SaveAfterPipeline

SpecRun == InitPipe /\ [][NextRun]_vars

(***************************************************************************)
(* SpecFetch: the listing crawl of one section, page by page, each page    *)
(* requested by _make_request with its retries, followed by the detail     *)
(* fetch of a listed thread.  Every step of the sequential code is taken   *)
(* in the end: requests carry a timeout and sleeps are finite.             *)
(***************************************************************************)
MaxRetriesChoices == {0, 1, 3}

MaxPagesChoices == {1, 2, 3}

\* What an attempt meets: the status 200, 429, another status, or a
\* requests.exceptions.RequestException.
Responses == {"200", "429", "500", "error"}

\* The numbers of entries a fetched listing page may hold.
PageEntries == {0, 1}

\* A loop that makes one attempt more than range(max_retries + 1).
MakeRequestStep_OneMore(a, r, retries) ==
    IF r = "200" THEN [returns |-> TRUE, soup |-> "soup", attempt |-> a]
    ELSE IF a <= retries THEN [returns |-> FALSE, soup |-> "None", attempt |-> a + 1]
    ELSE [returns |-> TRUE, soup |-> "None", attempt |-> a]

\* One pass of "for attempt in range(max_retries + 1)": 200 returns the
\* parsed page; 429, another status and a request exception go to the next
\* attempt; after the last one the loop ends and None is returned.
MakeRequestStep(a, r, retries) ==
    IF r = "200" THEN [returns |-> TRUE, soup |-> "soup", attempt |-> a]
    ELSE IF a < retries THEN [returns |-> FALSE, soup |-> "None", attempt |-> a + 1]
    ELSE [returns |-> TRUE, soup |-> "None", attempt |-> a]

\* The body of "for page in range(1, max_pages + 1)" after parse_node_page:
\* no entries: break; entries: the next page, if any; an exception: break
\* after the first page, continue on the first.
NextPage(p, outcome, pages) ==
    LET next == IF p < pages THEN [pc |-> "page", page |-> p + 1]
                ELSE [pc |-> "returned", page |-> p]
        stop == [pc |-> "returned", page |-> p]
    IN  CASE outcome = "entries" -> next
          [] outcome = "empty"   -> stop
          [] outcome = "raised"  -> IF p > 1 THEN stop ELSE next

PageResult(outcome) == [page |-> page, outcome |-> outcome]

InitFetch ==
    /\ v2ex_topics = EmptyTable
    /\ v2ex_replies = EmptyTable
    /\ v2ex_users = {}
    /\ now = 0
    /\ lastOp = "init"
    /\ lastArgs = <<>>
    /\ FilterIdle
    /\ PipeIdle
    /\ CrawlIdle
    /\ max_retries \in MaxRetriesChoices
    /\ max_pages \in MaxPagesChoices
    /\ pc = "page"
    /\ page = 1
    /\ attempt = 0
    /\ responses = <<>>
    /\ soup = "None"
    /\ page_results = <<>>
    /\ all_topics = 0
    /\ detail = NoDetail
    /\ RestIdle

fetchFrame == <<dbVars, filterVars, pipeVars, crawlVars, restVars, max_retries, max_pages>>

\* parse_node_page calls _make_request
ParseNodePage ==
    /\ pc = "page"
    /\ pc' = "request"
    /\ attempt' = 0
    /\ responses' = <<>>
    /\ soup' = "None"
    /\ UNCHANGED <<fetchFrame, page, page_results, all_topics, detail>>

\* one attempt of _make_request
MakeRequest ==
    /\ pc = "request"
    /\ \E r \in Responses :
          LET step == MakeRequestStep(attempt, r, max_retries)
          IN  /\ responses' = Append(responses, r)
              /\ attempt' = step.attempt
              /\ soup' = step.soup
              /\ pc' = IF step.returns THEN "soup" ELSE "request"
    /\ UNCHANGED <<fetchFrame, page, page_results, all_topics, detail>>

\* parse_node_page returns its list to crawl_node_with_pagination: empty
\* without a page, otherwise what the page holds.
ParseNodePageReturns ==
    /\ pc = "soup"
    /\ \E n \in PageEntries :
          /\ soup = "None" => n = 0
          /\ LET outcome == IF n = 0 THEN "empty" ELSE "entries"
                 to      == NextPage(page, outcome, max_pages)
             IN  /\ page_results' = Append(page_results, PageResult(outcome))
                 /\ all_topics' = all_topics + n
                 /\ pc' = to.pc
                 /\ page' = to.page
    /\ UNCHANGED <<fetchFrame, attempt, responses, soup, detail>>

\* an exception other than a RequestException leaves _make_request, or the
\* parsing of a fetched page raises: "except Exception" of the page loop.
ParseNodePageRaises ==
    /\ pc = "request" \/ (pc = "soup" /\ soup = "soup")
    /\ LET to == NextPage(page, "raised", max_pages)
       IN  /\ page_results' = Append(page_results, PageResult("raised"))
           /\ pc' = to.pc
           /\ page' = to.page
    /\ UNCHANGED <<fetchFrame, attempt, responses, soup, all_topics, detail>>

\* What the one request of a detail fetch meets.
DetailResponses == {"200", "429", "500", "timeout"}

\* The detail fetches make one request: a status other than 200 and every
\* exception give the empty result.
DetailFetch(via, r) ==
    [ done      |-> TRUE,
      via       |-> via,
      responses |-> <<r>>,
      result    |-> IF r = "200" THEN "page" ELSE "empty",
      raised    |-> FALSE ]

\* get_topic_content_and_replies_from_html for a listed thread
GetTopicContentAndRepliesFromHtml ==
    /\ pc = "returned"
    /\ all_topics > 0
    /\ ~detail.done
    /\ \E r \in DetailResponses : detail' = DetailFetch("html", r)
    /\ UNCHANGED <<fetchFrame, pc, page, attempt, responses, soup, page_results, all_topics>>

\* _get_topic_replies_async for a listed thread
GetTopicRepliesAsync ==
    /\ pc = "returned"
    /\ all_topics > 0
    /\ ~detail.done
    /\ \E r \in DetailResponses : detail' = DetailFetch("async", r)
    /\ UNCHANGED <<fetchFrame, pc, page, attempt, responses, soup, page_results, all_topics>>

NextFetch ==
    \/ ParseNodePage
    \/ MakeRequest
    \/ ParseNodePageReturns
    \/ ParseNodePageRaises
    \/ GetTopicContentAndRepliesFromHtml
    \/ GetTopicRepliesAsync

SpecFetch == InitFetch /\ [][NextFetch]_vars /\ WF_vars(NextFetch)

(***************************************************************************)
(* SpecParse: the reply cells of one thread page under                     *)
(* get_topic_content_and_replies_from_html and _parse_reply_cell.          *)
(***************************************************************************)
\* How many reply cells a page has.
CellCounts == 0..3

Digits == {"0", "1", "2", "3", "4", "5", "6", "7", "8", "9"}

DigitValue(c) ==
    CASE c = "0" -> 0 [] c = "1" -> 1 [] c = "2" -> 2 [] c = "3" -> 3 [] c = "4" -> 4
      [] c = "5" -> 5 [] c = "6" -> 6 [] c = "7" -> 7 [] c = "8" -> 8 [] c = "9" -> 9

\* What follows "r_" in the id attribute of a selected cell, as characters.
IdSuffixes == {<<"7">>, <<"1", "2">>, <<"x">>, <<"4", "x">>, <<>>}

\* int(reply_id_attr[2:]) on decimal digits; anything else is a ValueError.
IntParses(chars) == chars # <<>> /\ \A k \in 1..Len(chars) : chars[k] \in Digits

RECURSIVE IntOf(_)
IntOf(chars) ==
    IF chars = <<>> THEN 0
    ELSE 10 * IntOf(SubSeq(chars, 1, Len(chars) - 1)) + DigitValue(chars[Len(chars)])

\* A cell: the suffix of its id and whether parsing the rest of it raises.
ReplyCells == [suffix : IdSuffixes, raises : BOOLEAN]

SyntheticReplyId_FromZero(topic_id, floor) == topic_id * 1000 + floor - 1

\* topic_id * 1000 + floor
SyntheticReplyId(topic_id, floor) == topic_id * 1000 + floor

\* _parse_reply_cell: None when anything in it raises; the cell has no .ago
\* element, so the timestamps are the clock of the run.
ParseReplyCell(cell, topic_id, floor, clock) ==
    IF cell.raises THEN [none |-> TRUE]
    ELSE [none |-> FALSE,
          id |-> IF IntParses(cell.suffix) THEN IntOf(cell.suffix)
                 ELSE SyntheticReplyId(topic_id, floor),
          topic_id |-> topic_id,
          reply_floor |-> floor,
          created_timestamp |-> clock]

\* The loop over enumerate(reply_cells), the floor being i + 1: a cell that
\* parses to None is left out and the floor goes on counting.
RECURSIVE ParseReplies(_, _, _, _)
ParseReplies(cells, topic_id, i, clock) ==
    IF i >= Len(cells) THEN <<>>
    ELSE LET reply_data == ParseReplyCell(cells[i + 1], topic_id, i + 1, clock)
         IN  (IF reply_data.none THEN <<>> ELSE <<reply_data>>)
             \o ParseReplies(cells, topic_id, i + 1, clock)

ParseThreadIds == {1, 2}

\* The runs over one page.
ParseRuns == 1..2

InitParse ==
    /\ v2ex_topics = EmptyTable
    /\ v2ex_replies = EmptyTable
    /\ v2ex_users = {}
    /\ now = 0
    /\ lastOp = "init"
    /\ lastArgs = <<>>
    /\ FilterIdle
    /\ PipeIdle
    /\ CrawlIdle
    /\ FetchIdle
    /\ ReportIdle
    /\ LockIdle
    /\ ExtraIdle
    /\ parse_topic_id \in ParseThreadIds
    /\ \E n \in CellCounts : reply_cells \in [1..n -> ReplyCells]
    /\ parsed_runs = <<>>

parseFrame ==
    <<v2ex_topics, v2ex_replies, v2ex_users, lastArgs, filterVars, fetchVars, pipeVars,
      crawlVars, reportVars, lockVars, extraVars, reply_cells, parse_topic_id>>

TickParse ==
    /\ now < MaxClock
    /\ now' = now + 1
    /\ lastOp' = "tick"
    /\ UNCHANGED <<parseFrame, parsed_runs>>

\* One run of get_topic_content_and_replies_from_html over the page.
ParseRepliesOfPage ==
    /\ Len(parsed_runs) + 1 \in ParseRuns
    /\ parsed_runs' = Append(parsed_runs, ParseReplies(reply_cells, parse_topic_id, 0, now))
    /\ lastOp' = "get_topic_content_and_replies_from_html"
    /\ UNCHANGED <<parseFrame, now>>

NextParse == TickParse \/ ParseRepliesOfPage

SpecParse == InitParse /\ [][NextParse]_vars

(***************************************************************************)
(* SpecSanitize: threads and replies with texts around the length limits   *)
(* of _sanitize_topic_data and _sanitize_reply_data, stored one by one and *)
(* in batches.  lastArgs keeps the records as they were handed in.         *)
(***************************************************************************)
TitleLens == {1, TitleMaxChars, TitleMaxChars + 1}

TopicContentLens ==
    {0, TopicContentMaxChars - 1, TopicContentMaxChars, TopicContentMaxChars + 1,
     3 * TopicContentMaxChars}

ReplyContentLens ==
    {1, ReplyContentMaxChars, ReplyContentMaxChars + 1}

\* A fetched thread whose title and body have the given lengths.
SizedTopic(id, title_len, content_len, ts) ==
    [TopicDict(id, 1, ts) EXCEPT !.title = Str(1, title_len), !.content = Str(1, content_len)]

\* A reply of thread 1 whose body has the given length.
SizedReply(id, content_len, ts) ==
    [ReplyDict(id, 1, 1, ts) EXCEPT !.content = Str(1, content_len)]

InitSanitize ==
    /\ v2ex_topics = EmptyTable
    /\ v2ex_replies = EmptyTable
    /\ v2ex_users = {}
    /\ now = 0
    /\ lastOp = "init"
    /\ lastArgs = <<>>
    /\ FilterIdle
    /\ PipeIdle
    /\ CrawlIdle
    /\ FetchIdle
    /\ RestIdle

StoreSizedTopic ==
    \E tl \in TitleLens, cl \in TopicContentLens :
        LET d == SizedTopic(1, tl, cl, now)
        IN  /\ v2ex_topics' = InsertOrUpdateTopicOp(v2ex_topics, d, now)
            /\ lastOp' = "insert_or_update_topic"
            /\ lastArgs' = <<d>>
            /\ UNCHANGED <<v2ex_replies, v2ex_users, now, filterVars, fetchVars, restVars,
                           pipeVars, crawlVars>>

StoreSizedTopicBatch ==
    \E tl \in TitleLens, cl \in TopicContentLens :
        LET batch == <<SizedTopic(1, tl, cl, now), SizedTopic(2, 1, cl, now)>>
        IN  /\ v2ex_topics' = BatchInsertOrUpdateTopicsOp(v2ex_topics, batch, now)
            /\ lastOp' = "batch_insert_or_update_topics"
            /\ lastArgs' = batch
            /\ UNCHANGED <<v2ex_replies, v2ex_users, now, filterVars, fetchVars, restVars,
                           pipeVars, crawlVars>>

StoreSizedReply ==
    \E cl \in ReplyContentLens :
        LET r == SizedReply(1, cl, now)
        IN  /\ 1 \in DOMAIN v2ex_topics
            /\ v2ex_replies' = InsertOrUpdateReplyOp(v2ex_replies, v2ex_topics, r, now)
            /\ lastOp' = "insert_or_update_reply"
            /\ lastArgs' = <<r>>
            /\ UNCHANGED <<v2ex_topics, v2ex_users, now, filterVars, fetchVars, restVars,
                           pipeVars, crawlVars>>

StoreSizedReplyBatch ==
    \E cl \in ReplyContentLens :
        LET batch == <<SizedReply(1, cl, now), SizedReply(2, 1, now)>>
        IN  /\ 1 \in DOMAIN v2ex_topics
            /\ v2ex_replies' = BatchInsertOrUpdateRepliesOp(v2ex_replies, v2ex_topics, batch, now)
            /\ lastOp' = "batch_insert_or_update_replies"
            /\ lastArgs' = batch
            /\ UNCHANGED <<v2ex_topics, v2ex_users, now, filterVars, fetchVars, restVars,
                           pipeVars, crawlVars>>

NextSanitize ==
    StoreSizedTopic \/ StoreSizedTopicBatch \/ StoreSizedReply \/ StoreSizedReplyBatch

SpecSanitize == InitSanitize /\ [][NextSanitize]_vars

(***************************************************************************)
(* SpecClean: clean_old_data over stores whose threads have a last         *)
(* activity before, at and after the cutoff, or none.                      *)
(***************************************************************************)
\* timedelta(days=1) in seconds
DaySeconds == 86400

RetentionDays == {0, 1, 2}

\* A variant of the WHERE clause that also takes the row at the cutoff.
Expired_Inclusive(row, cutoff_timestamp) ==
    \/ (row.last_touched_timestamp # NULL /\ row.last_touched_timestamp <= cutoff_timestamp)
    \/ (row.last_touched_timestamp = NULL /\ row.created_timestamp <= cutoff_timestamp)

\* A variant of the WHERE clause without its second disjunct.
Expired_LastTouchedOnly(row, cutoff_timestamp) ==
    row.last_touched_timestamp # NULL /\ row.last_touched_timestamp < cutoff_timestamp

\* WHERE last_touched_timestamp < %s
\*    OR (last_touched_timestamp IS NULL AND created_timestamp < %s)
\* A comparison with NULL is not true.
Expired(row, cutoff_timestamp) ==
    \/ (row.last_touched_timestamp # NULL /\ row.last_touched_timestamp < cutoff_timestamp)
    \/ (row.last_touched_timestamp = NULL /\ row.created_timestamp < cutoff_timestamp)

Restrict(T, ids) == [i \in ids |-> T[i]]

\* A variant without the foreign key's ON DELETE CASCADE.
CleanOldDataOp_RepliesStay(T, R, cutoff_timestamp) ==
    LET gone == {id \in DOMAIN T : Expired(T[id], cutoff_timestamp)}
    IN  [topics        |-> Restrict(T, DOMAIN T \ gone),
         replies       |-> R,
         deleted_count |-> Cardinality(gone)]

\* The DELETE of clean_old_data: the rows the WHERE clause takes go, their
\* replies go with them (ON DELETE CASCADE), cursor.rowcount counts the
\* rows deleted from v2ex_topics.
CleanOldDataOp(T, R, cutoff_timestamp) ==
    LET gone == {id \in DOMAIN T : Expired(T[id], cutoff_timestamp)}
    IN  [topics        |-> Restrict(T, DOMAIN T \ gone),
         replies       |-> Restrict(R, {r \in DOMAIN R : R[r].topic_id \notin gone}),
         deleted_count |-> Cardinality(gone)]

\* The timestamps of a stored thread: created and last activity.
ThreadAges ==
    {<<0, 0>>, <<0, DaySeconds - 1>>, <<0, DaySeconds>>, <<0, 2 * DaySeconds>>,
     <<0, NULL>>, <<DaySeconds, NULL>>}

CleanThreadIds == {1, 2, 3}

\* Thread id has id - 1 replies, numbered 10 * id + 1, 10 * id + 2.
CleanReplies(ids) ==
    [r \in {10 * id + k : id \in ids, k \in {1, 2}} \cap {21, 31, 32} |->
        NewReplyRow(SanitizeReply(ReplyDict(r, r \div 10, 1, 0)), 0)]

CleanStores ==
    { [topics  |-> [id \in DOMAIN ages |->
                       NewTopicRow(SanitizeTopic([TopicDict(id, 1, 0) EXCEPT
                                                     !.created = ages[id][1],
                                                     !.last_touched = ages[id][2]]), 0)],
       replies |-> CleanReplies(DOMAIN ages)] :
      ages \in UNION {[ids -> ThreadAges] : ids \in SUBSET CleanThreadIds} }

InitClean ==
    /\ \E store \in CleanStores :
          /\ v2ex_topics = store.topics
          /\ v2ex_replies = store.replies
    /\ v2ex_users = {1}
    /\ now = DaySeconds
    /\ lastOp = "init"
    /\ lastArgs = <<>>
    /\ FilterIdle
    /\ PipeIdle
    /\ CrawlIdle
    /\ FetchIdle
    /\ RestIdle

\* A day passes.
TickDay ==
    /\ now < MaxClock * DaySeconds
    /\ now' = now + DaySeconds
    /\ lastOp' = "tick"
    /\ UNCHANGED <<v2ex_topics, v2ex_replies, v2ex_users, lastArgs, filterVars, fetchVars,
                   restVars, pipeVars, crawlVars>>

CleanOldData ==
    \E retention_days \in RetentionDays :
        LET cutoff_timestamp == now - retention_days * DaySeconds
            done == CleanOldDataOp(v2ex_topics, v2ex_replies, cutoff_timestamp)
        IN  /\ v2ex_topics' = done.topics
            /\ v2ex_replies' = done.replies
            /\ lastOp' = "clean_old_data"
            /\ lastArgs' = [cutoff_timestamp |-> cutoff_timestamp,
                            deleted_count |-> done.deleted_count]
            /\ UNCHANGED <<v2ex_users, now, filterVars, fetchVars, restVars, pipeVars,
                           crawlVars>>

NextClean == TickDay \/ CleanOldData

SpecClean == InitClean /\ [][NextClean]_vars

(***************************************************************************)
(* SpecReport: _generate_unified_report with the LLM client's retries, the *)
(* report table and the Notion client.                                     *)
(***************************************************************************)
\* What one streaming attempt of _call_model_with_retries meets: a complete
\* answer, a connection closed after some content, a connection closed
\* before any content, an HTTP error status.
AttemptOutcomes == {"full", "cut_with_content", "cut_empty", "status_error"}

\* analyze_content(max_retries = 3)
LlmMaxRetries == 3

LlmFailure == [called |-> TRUE, success |-> FALSE, partial |-> FALSE, attempt |-> 0]

\* _call_model_with_retries: the first attempt that received content ends the
\* loop, complete or partial; the others are retried until the attempts are
\* used up.
RECURSIVE CallModelWithRetries(_, _)
CallModelWithRetries(outcomes, tried) ==
    IF tried >= LlmMaxRetries THEN LlmFailure
    ELSE CASE outcomes[tried + 1] = "full" ->
                [called |-> TRUE, success |-> TRUE, partial |-> FALSE, attempt |-> tried + 1]
           [] outcomes[tried + 1] = "cut_with_content" ->
                [called |-> TRUE, success |-> TRUE, partial |-> TRUE, attempt |-> tried + 1]
           [] OTHER -> CallModelWithRetries(outcomes, tried + 1)

ReportNodes == {1, 2}

\* create_report_page: the page is created, the client reports a failure, or
\* the call raises.
NotionOutcomes == {"created", "refused", "raises"}

\* The generations of one sitting.
Generations == 1..3

NoRow == 0

\* final_result: success is True when the row is written and is set to False
\* at the end when the LLM result is partial.
GenerationResult(llm, report_id) ==
    [success |-> ~llm.partial, report_id |-> report_id, partial |-> llm.partial]

GenerationFailed == [success |-> FALSE, report_id |-> NoRow, partial |-> FALSE]

InitReport ==
    /\ v2ex_topics = EmptyTable
    /\ v2ex_replies = EmptyTable
    /\ v2ex_users = {}
    /\ now = 0
    /\ lastOp = "init"
    /\ lastArgs = <<>>
    /\ FilterIdle
    /\ PipeIdle
    /\ CrawlIdle
    /\ FetchIdle
    /\ ParseIdle
    /\ LockIdle
    /\ ExtraIdle
    /\ ReportIdle

reportFrame ==
    <<v2ex_topics, v2ex_replies, v2ex_users, now, lastArgs, filterVars, fetchVars, pipeVars,
      crawlVars, parseVars, lockVars, extraVars>>

\* _generate_unified_report without an LLM client, or with an analysis that
\* failed: nothing is written.
GenerateReportWithoutAnalysis ==
    \E llm_present \in BOOLEAN, outcomes \in [1..LlmMaxRetries -> AttemptOutcomes] :
        LET llm == IF llm_present THEN CallModelWithRetries(outcomes, 0) ELSE llm_result
        IN  /\ Len(report_results) + 1 \in Generations
            /\ llm_present => ~llm.success
            /\ llm_result' = llm
            /\ report_results' = Append(report_results, GenerationFailed)
            /\ lastOp' = "generate_report"
            /\ UNCHANGED <<reportFrame, reports, notion_pages>>

\* _generate_unified_report with an analysis, complete or partial: the row
\* is inserted, the page is pushed, then the result is settled.  When
\* insert_report raises, the caller's except branch returns a failure.
GenerateReportFromAnalysis ==
    \E node_name \in ReportNodes, outcomes \in [1..LlmMaxRetries -> AttemptOutcomes],
       insert_ok \in BOOLEAN, notion \in NotionOutcomes :
        LET llm == CallModelWithRetries(outcomes, 0)
            run == Len(report_results) + 1
            report_id == Len(reports) + 1
            row == [id |-> report_id, node_name |-> node_name, run |-> run]
        IN  /\ run \in Generations
            /\ llm.success
            /\ llm_result' = llm
            /\ IF insert_ok
               THEN /\ reports' = Append(reports, row)
                    /\ notion_pages' = IF notion = "created"
                                       THEN Append(notion_pages, [run |-> run])
                                       ELSE notion_pages
                    /\ report_results' = Append(report_results,
                                                GenerationResult(llm, report_id))
               ELSE /\ report_results' = Append(report_results, GenerationFailed)
                    /\ UNCHANGED <<reports, notion_pages>>
            /\ lastOp' = "generate_report"
            /\ UNCHANGED reportFrame

NextReport == GenerateReportWithoutAnalysis \/ GenerateReportFromAnalysis

SpecReport == InitReport /\ [][NextReport]_vars

(***************************************************************************)
(* SpecTxn: batch_insert_or_update_topics as a transaction of get_cursor:  *)
(* the rows are written one after the other into the open transaction,    *)
(* then the commit; an exception at a row or at the commit rolls back.     *)
(***************************************************************************)
\* cursor.executemany: the rows go into the transaction in batch order up to
\* the first one that is refused.
RECURSIVE ExecuteManyInTransaction(_, _, _)
ExecuteManyInTransaction(T, rows, crawled_at) ==
    IF rows = <<>> THEN [table |-> T, raised |-> FALSE]
    ELSE IF ~TopicRowAccepted(Head(rows)) THEN [table |-> T, raised |-> TRUE]
    ELSE ExecuteManyInTransaction(TopicUpsertRow(T, Head(rows), crawled_at),
                                  Tail(rows), crawled_at)

\* A variant on an autocommit connection: what was written before the
\* exception stays.
BatchUpsertTransaction_Autocommit(T, batch, crawled_at, commit_ok) ==
    LET done == ExecuteManyInTransaction(T, [i \in 1..Len(batch) |-> SanitizeTopic(batch[i])],
                                         crawled_at)
    IN  IF batch = <<>> THEN [table |-> T, raised |-> FALSE]
        ELSE [table |-> done.table, raised |-> done.raised \/ ~commit_ok]

\* batch_insert_or_update_topics inside get_cursor (autocommit off): the
\* table takes the transaction's rows at the commit; on an exception
\* get_cursor rolls back and raises again.
BatchUpsertTransaction(T, batch, crawled_at, commit_ok) ==
    LET done == ExecuteManyInTransaction(T, [i \in 1..Len(batch) |-> SanitizeTopic(batch[i])],
                                         crawled_at)
    IN  IF batch = <<>> THEN [table |-> T, raised |-> FALSE]
        ELSE IF done.raised \/ ~commit_ok THEN [table |-> T, raised |-> TRUE]
        ELSE [table |-> done.table, raised |-> FALSE]

\* Batches of up to two records: listing entries, fetched threads and
\* records the table refuses.
TxnDicts(ts) == { TopicDict(id, shape, ts) : id \in ThreadIds, shape \in {1, 2, 4} }

TxnBatches(ts) ==
    {<<>>} \cup { <<d>> : d \in TxnDicts(ts) }
           \cup { <<d, e>> : d \in TxnDicts(ts), e \in TxnDicts(ts) }

BatchInsertOrUpdateTopicsInTransaction ==
    \E batch \in TxnBatches(now), commit_ok \in BOOLEAN :
        LET done == BatchUpsertTransaction(v2ex_topics, batch, now, commit_ok)
        IN  /\ v2ex_topics' = done.table
            /\ lastOp' = "batch_insert_or_update_topics"
            /\ lastArgs' = [before |-> v2ex_topics,
                            ids    |-> {batch[i].id : i \in 1..Len(batch)},
                            first  |-> IF batch = <<>> THEN 0
                                       ELSE IF TopicRowAccepted(SanitizeTopic(batch[1]))
                                       THEN batch[1].id ELSE 0,
                            commit_ok |-> commit_ok,
                            raised |-> done.raised]
            /\ UNCHANGED <<v2ex_replies, v2ex_users, now, filterVars, fetchVars, restVars,
                           pipeVars, crawlVars>>

NextTxn == BatchInsertOrUpdateTopicsInTransaction

SpecTxn == InitTopics /\ [][NextTxn]_vars

(***************************************************************************)
(* SpecLock: process_single_topic step by step.  A worker fetches outside  *)
(* the lock; inside a with lock: block it reads and writes the counters,   *)
(* extends the buffers and, when due, flushes.  processed_count += 1 is a  *)
(* read of the shared cell followed by a write.                            *)
(***************************************************************************)
\* The runs explored: up to three threads under every bound, any one of
\* them raising, and a list one longer than a batch with two workers.
LockRuns ==
    { <<n, c, r>> : n \in 1..3, c \in ConcurrencyBounds, r \in 0..3 }
        \cup { <<PipeBatchSize + 1, 2, 0>> }

InFlight == {i \in DOMAIN worker : worker[i] \notin {"queued", "done"}}

\* A variant in which entering the block does not wait.
LockIsFree_Always == TRUE

\* with lock: the block is entered when no worker holds the lock.
LockIsFree == lock = 0

InitLock ==
    /\ v2ex_topics = EmptyTable
    /\ v2ex_replies = EmptyTable
    /\ v2ex_users = {}
    /\ now = 1
    /\ lastOp = "init"
    /\ lastArgs = <<>>
    /\ FilterIdle
    /\ \E run \in LockRuns :
          /\ run[3] <= run[1]
          /\ pipeline_topics = [i \in 1..run[1] |-> TopicDict(i, 1, 1)]
          /\ worker = [i \in 1..run[1] |-> "queued"]
          /\ raiser = run[3]
          /\ max_concurrent_replies = run[2]
          /\ fetch_count = [i \in 1..run[1] |-> 0]
          /\ reg = [i \in 1..run[1] |-> 0]
          /\ appended = [i \in 1..run[1] |-> 0]
    /\ lock = 0
    /\ writes = <<>>
    /\ processed_count = 0
    /\ failed_count = 0
    /\ current_batch_topics = <<>>
    /\ current_batch_replies = <<>>
    /\ current_batch_users = <<>>
    /\ all_replies = <<>>
    /\ flush = NoFlush
    /\ returned = FALSE
    /\ CrawlIdle
    /\ FetchIdle
    /\ ParseIdle
    /\ ReportIdle
    /\ ExtraIdle

lockFrame ==
    <<crawlVars, now, lastArgs, filterVars, fetchVars, parseVars, reportVars, extraVars,
      max_concurrent_replies, raiser, returned>>

storeVars == <<v2ex_topics, v2ex_replies, v2ex_users, flush, writes>>

bufferVars ==
    <<current_batch_topics, current_batch_replies, current_batch_users, all_replies>>

\* executor.submit: the pool takes the queued threads in list order while a
\* worker is free.
SubmitTopic ==
    \E i \in DOMAIN worker :
        /\ worker[i] = "queued"
        /\ \A j \in 1..(i - 1) : worker[j] # "queued"
        /\ Cardinality(InFlight) < max_workers
        /\ worker' = [worker EXCEPT ![i] = "running"]
        /\ lastOp' = "submit"
        /\ UNCHANGED <<lockFrame, storeVars, bufferVars, pipeline_topics, processed_count,
                       failed_count, fetch_count, lock, reg, appended>>

\* The fetch, outside the lock: it returns a result or raises.
FetchDetail ==
    \E i \in DOMAIN worker :
        /\ worker[i] = "running"
        /\ worker' = [worker EXCEPT ![i] = IF i = raiser THEN "raised" ELSE "fetched"]
        /\ fetch_count' = [fetch_count EXCEPT ![i] = @ + 1]
        /\ pipeline_topics' =
              [pipeline_topics EXCEPT ![i] =
                  IF i = raiser THEN @
                  ELSE [@ EXCEPT !.content = DetailPage(pipeline_topics[i].id, now).content]]
        /\ lastOp' = "fetch"
        /\ UNCHANGED <<lockFrame, storeVars, bufferVars, processed_count, failed_count,
                       lock, reg, appended>>

\* with lock: of the try branch, of the except branch and of its second
\* block.
AcquireLock ==
    \E i \in DOMAIN worker :
        /\ worker[i] \in {"fetched", "raised", "excepted"}
        /\ LockIsFree
        /\ lock' = i
        /\ worker' = [worker EXCEPT ![i] = CASE @ = "fetched" -> "locked"
                                             [] @ = "raised" -> "xlocked"
                                             [] OTHER -> "alocked"]
        /\ lastOp' = "acquire"
        /\ UNCHANGED <<lockFrame, storeVars, bufferVars, pipeline_topics, processed_count,
                       failed_count, fetch_count, reg, appended>>

\* processed_count += 1, the read; in the except branch failed_count += 1
\* comes first.
ReadCount ==
    \E i \in DOMAIN worker :
        /\ worker[i] \in {"locked", "xlocked"}
        /\ reg' = [reg EXCEPT ![i] = processed_count]
        /\ failed_count' = IF worker[i] = "xlocked" THEN failed_count + 1 ELSE failed_count
        /\ worker' = [worker EXCEPT ![i] = IF @ = "locked" THEN "read" ELSE "xread"]
        /\ lastOp' = "count"
        /\ UNCHANGED <<lockFrame, storeVars, bufferVars, pipeline_topics, processed_count,
                       fetch_count, lock, appended>>

\* processed_count += 1, the write; the first block of the except branch
\* ends here.
WriteCount ==
    \E i \in DOMAIN worker :
        /\ worker[i] \in {"read", "xread"}
        /\ processed_count' = reg[i] + 1
        /\ worker' = [worker EXCEPT ![i] = IF @ = "read" THEN "counted" ELSE "excepted"]
        /\ lock' = IF worker[i] = "xread" THEN 0 ELSE lock
        /\ lastOp' = "count"
        /\ UNCHANGED <<lockFrame, storeVars, bufferVars, pipeline_topics, failed_count,
                       fetch_count, reg, appended>>

\* The try branch extends the buffers; the block ends here unless the flush
\* is due.
CollectResult ==
    \E i \in DOMAIN worker :
        /\ worker[i] = "counted"
        /\ LET result == DetailPage(pipeline_topics[i].id, now)
               bt     == Append(current_batch_topics, pipeline_topics[i])
               due    == Len(bt) >= PipeBatchSize \/ processed_count = Len(pipeline_topics)
           IN  /\ current_batch_topics' = bt
               /\ current_batch_replies' = current_batch_replies \o result.replies
               /\ current_batch_users' = current_batch_users \o ReplyUsers(result.replies)
               /\ all_replies' = all_replies \o result.replies
               /\ worker' = [worker EXCEPT ![i] = IF due THEN "flushing" ELSE "done"]
               /\ lock' = IF due THEN lock ELSE 0
        /\ appended' = [appended EXCEPT ![i] = @ + 1]
        /\ lastOp' = "collect"
        /\ UNCHANGED <<lockFrame, storeVars, pipeline_topics, processed_count, failed_count,
                       fetch_count, reg>>

\* The flush: the three batch writes and the clearing of the buffers; a
\* refused thread row leaves the rest undone.  The block ends here.
FlushBatch ==
    \E i \in DOMAIN worker :
        /\ worker[i] = "flushing"
        /\ LET ok == TopicBatchAccepted(current_batch_topics)
               T1 == BatchInsertOrUpdateTopicsOp(v2ex_topics, current_batch_topics, now)
           IN  /\ IF ok
                  THEN /\ v2ex_topics' = T1
                       /\ v2ex_replies' = BatchInsertOrUpdateRepliesOp(v2ex_replies, T1,
                                                                       current_batch_replies, now)
                       /\ v2ex_users' = BatchInsertUsersByUsernameOp(v2ex_users,
                                                                     current_batch_users)
                       /\ current_batch_topics' = <<>>
                       /\ current_batch_replies' = <<>>
                       /\ current_batch_users' = <<>>
                  ELSE UNCHANGED <<v2ex_topics, v2ex_replies, v2ex_users, current_batch_topics,
                                   current_batch_replies, current_batch_users>>
               /\ flush' = [attempted |-> TRUE, failed |-> ~ok,
                            topics |-> current_batch_topics,
                            replies |-> current_batch_replies]
               /\ writes' = writes \o FlushWrites(FlushCount(writes) + 1, ok)
        /\ worker' = [worker EXCEPT ![i] = "done"]
        /\ lock' = 0
        /\ lastOp' = "flush"
        /\ UNCHANGED <<lockFrame, all_replies, pipeline_topics, processed_count, failed_count,
                       fetch_count, reg, appended>>

\* The second block of the except branch: the thread joins the buffer with
\* an empty body.
AppendFailedTopic ==
    \E i \in DOMAIN worker :
        /\ worker[i] = "alocked"
        /\ LET topic == [pipeline_topics[i] EXCEPT !.content = EmptyStr]
           IN  /\ pipeline_topics' = [pipeline_topics EXCEPT ![i] = topic]
               /\ current_batch_topics' = Append(current_batch_topics, topic)
        /\ appended' = [appended EXCEPT ![i] = @ + 1]
        /\ worker' = [worker EXCEPT ![i] = "done"]
        /\ lock' = 0
        /\ lastOp' = "collect"
        /\ UNCHANGED <<lockFrame, storeVars, current_batch_replies, current_batch_users,
                       all_replies, processed_count, failed_count, fetch_count, reg>>

\* The with block of the executor ends when every worker is done.
LockedPipelineReturns ==
    /\ ~returned
    /\ \A i \in DOMAIN worker : worker[i] = "done"
    /\ returned' = TRUE
    /\ lastOp' = "return"
    /\ UNCHANGED <<crawlVars, now, lastArgs, filterVars, fetchVars, parseVars, reportVars,
                   extraVars,
                   max_concurrent_replies, raiser, storeVars, bufferVars, pipeline_topics,
                   worker, processed_count, failed_count, fetch_count, lock, reg, appended>>

NextLock ==
    \/ SubmitTopic
    \/ FetchDetail
    \/ AcquireLock
    \/ ReadCount
    \/ WriteCount
    \/ CollectResult
    \/ FlushBatch
    \/ AppendFailedTopic
    \/ LockedPipelineReturns

SpecLock == InitLock /\ [][NextLock]_vars

(***************************************************************************)
(* SpecBackoff: the waits between the attempts of one request, for the     *)
(* listing client (web_parser._make_request) and the API client            *)
(* (v2ex_crawler._make_request).  Times are in tenths of a second.         *)
(***************************************************************************)
Clients == {"web_parser", "v2ex_crawler"}

FailedResponses == {"429", "500", "error"}

\* random.uniform(a, b): the ends and the middle of the interval.
Jitters(client, status) ==
    CASE client = "web_parser" /\ status = "429"   -> {20, 35, 50}
      [] client = "web_parser"                     -> {10, 20, 30}
      [] client = "v2ex_crawler" /\ status = "429" -> {10, 20, 30}
      [] OTHER                                     -> {5, 10, 15}

\* wait_time = (2 ** attempt) * 3 + random.uniform(2, 5) on a 429 and
\* retry_delay = (2 ** attempt) + random.uniform(1, 3) otherwise in the
\* listing client; (2 ** attempt) * 2 + random.uniform(1, 3) and
\* (2 ** attempt) + random.uniform(0.5, 1.5) in the API client.
BackoffWait(client, status, tried, jitter) ==
    CASE client = "web_parser" /\ status = "429"   -> (2 ^ tried) * 30 + jitter
      [] client = "v2ex_crawler" /\ status = "429" -> (2 ^ tried) * 20 + jitter
      [] OTHER                                     -> (2 ^ tried) * 10 + jitter

InitBackoff ==
    /\ v2ex_topics = EmptyTable
    /\ v2ex_replies = EmptyTable
    /\ v2ex_users = {}
    /\ now = 0
    /\ lastOp = "init"
    /\ lastArgs = <<>>
    /\ FilterIdle
    /\ PipeIdle
    /\ CrawlIdle
    /\ max_retries \in MaxRetriesChoices
    /\ max_pages = 1
    /\ pc = "request"
    /\ page = 1
    /\ attempt = 0
    /\ responses = <<>>
    /\ soup = "None"
    /\ page_results = <<>>
    /\ all_topics = 0
    /\ detail = NoDetail
    /\ ParseIdle
    /\ ReportIdle
    /\ LockIdle
    /\ MaintIdle
    /\ RateIdle
    /\ waits = <<>>

backoffFrame ==
    <<dbVars, filterVars, pipeVars, crawlVars, parseVars, reportVars, lockVars, maintVars,
      rateVars, max_retries, max_pages, page, page_results, all_topics, detail>>

\* An attempt that fails: a 429 always waits and goes on to the next
\* attempt; another failure waits when an attempt is left.
AttemptFails ==
    \E client \in Clients, status \in FailedResponses :
        \E jitter \in Jitters(client, status) :
            /\ pc = "request"
            /\ waits # <<>> => client = waits[1].client
            /\ responses' = Append(responses, status)
            /\ waits' = IF status = "429" \/ attempt < max_retries
                        THEN Append(waits, [client |-> client, status |-> status,
                                            wait |-> BackoffWait(client, status, attempt, jitter)])
                        ELSE waits
            /\ attempt' = attempt + 1
            /\ pc' = IF attempt < max_retries THEN "request" ELSE "done"
            /\ soup' = "None"
            /\ UNCHANGED backoffFrame

\* An attempt that gets a 200 ends the request.
AttemptSucceeds ==
    /\ pc = "request"
    /\ responses' = Append(responses, "200")
    /\ soup' = "soup"
    /\ pc' = "done"
    /\ UNCHANGED <<backoffFrame, attempt, waits>>

NextBackoff == AttemptFails \/ AttemptSucceeds

SpecBackoff == InitBackoff /\ [][NextBackoff]_vars

(***************************************************************************)
(* SpecStore: the store under the writers of a crawl and the purge: the    *)
(* pipeline's batch flush, _save_crawled_data and clean_old_data, in any   *)
(* order, over two clock values.                                           *)
(***************************************************************************)
StoreTopicDicts(ts) == { TopicDict(id, shape, ts) : id \in ThreadIds, shape \in {1, 4} }

StoreTopicBatches(ts) ==
    { <<d>> : d \in StoreTopicDicts(ts) }
        \cup { <<d, e>> : d \in {x \in StoreTopicDicts(ts) : x.id = 1},
                           e \in {x \in StoreTopicDicts(ts) : x.id = 2} }

\* Replies of a stored thread, of a thread of the batch and of thread 3,
\* which is never stored.
StoreReplyDicts(ts) == { ReplyDict(id, t, 1, ts) : id \in ReplyIds, t \in ReplyParents }

StoreReplyBatches(ts) ==
    {<<>>} \cup { <<r>> : r \in StoreReplyDicts(ts) }
           \cup { <<r, q>> : r \in {x \in StoreReplyDicts(ts) : x.id = 1},
                              q \in {x \in StoreReplyDicts(ts) : x.id = 2} }

\* The flush of process_single_topic: threads, replies, users; an exception
\* of the thread upsert leaves the rest undone.
FlushBatchOp(st, batch_topics, batch_replies, ts) ==
    LET ok == TopicBatchAccepted(batch_topics)
        T1 == BatchInsertOrUpdateTopicsOp(st.topics, batch_topics, ts)
    IN  IF ok
        THEN Store(T1,
                   BatchInsertOrUpdateRepliesOp(st.replies, T1, batch_replies, ts),
                   BatchInsertUsersByUsernameOp(st.users, ReplyUsers(batch_replies)))
        ELSE st

InitStore ==
    /\ v2ex_topics = EmptyTable
    /\ v2ex_replies = EmptyTable
    /\ v2ex_users = {}
    /\ now = 0
    /\ lastOp = "init"
    /\ lastArgs = <<>>
    /\ FilterIdle
    /\ PipeIdle
    /\ CrawlIdle
    /\ FetchIdle
    /\ RestIdle

storeFrame == <<filterVars, fetchVars, restVars, pipeVars, crawlVars>>

\* The clock moves on between two crawls.
TickStore ==
    /\ now = 0
    /\ now' = 1
    /\ lastOp' = "tick"
    /\ UNCHANGED <<v2ex_topics, v2ex_replies, v2ex_users, lastArgs, storeFrame>>

FlushToStore ==
    \E batch_topics \in StoreTopicBatches(now), batch_replies \in StoreReplyBatches(now) :
        LET st == FlushBatchOp(Store(v2ex_topics, v2ex_replies, v2ex_users),
                               batch_topics, batch_replies, now)
        IN  /\ v2ex_topics' = st.topics
            /\ v2ex_replies' = st.replies
            /\ v2ex_users' = st.users
            /\ lastOp' = "flush"
            /\ lastArgs' = <<>>
            /\ UNCHANGED <<now, storeFrame>>

FinalSave ==
    \E all_t \in StoreTopicBatches(now), all_r \in StoreReplyBatches(now) :
        LET done == SaveCrawledDataOp(Store(v2ex_topics, v2ex_replies, v2ex_users),
                                      NodeResult(all_t, ReplyUsers(all_r), all_r), now)
        IN  /\ v2ex_topics' = done.store.topics
            /\ v2ex_replies' = done.store.replies
            /\ v2ex_users' = done.store.users
            /\ lastOp' = "_save_crawled_data"
            /\ lastArgs' = <<>>
            /\ UNCHANGED <<now, storeFrame>>

NextStore == TickStore \/ FlushToStore \/ FinalSave \/ CleanOldData

SpecStore == InitStore /\ [][NextStore]_vars

(***************************************************************************)
(* SpecMaint: run_full_maintenance of the scheduler, task by task, over    *)
(* two executions; each task wrapper reports success or failure.           *)
(***************************************************************************)
MaintenanceTasks == <<"crawl", "analysis", "report", "cleanup", "stats">>

MaintenanceRuns == 1..2

\* The parameters of run_report_task and the keywords of the call made by
\* run_full_maintenance; a keyword that is no parameter raises TypeError.
ReportTaskParameters == {"nodes", "hours_back", "report_type", "include_global"}

ReportCallKeywords == {"node_name", "hours_back", "report_type"}

ReportCallBinds == ReportCallKeywords \subseteq ReportTaskParameters

\* results is a dict: the tasks that have an entry, and those whose entry
\* has success = True.
EmptyResults == [entries |-> {}, succeeded |-> {}]

WithResult(results, task, ok) ==
    [entries |-> results.entries \cup {task},
     succeeded |-> IF ok THEN results.succeeded \cup {task}
                         ELSE results.succeeded \ {task}]

OverallSuccess(results) == \A task \in results.entries : task \in results.succeeded

InitMaint ==
    /\ v2ex_topics = EmptyTable
    /\ v2ex_replies = EmptyTable
    /\ v2ex_users = {}
    /\ now = 0
    /\ lastOp = "init"
    /\ lastArgs = <<>>
    /\ FilterIdle
    /\ PipeIdle
    /\ CrawlIdle
    /\ FetchIdle
    /\ RestIdle

maintFrame ==
    <<dbVars, filterVars, fetchVars, pipeVars, crawlVars,
      parseVars, reportVars, lockVars, backoffVars, rateVars>>

StartMaintenance ==
    /\ maintenance = NoMaintenance
    /\ Len(maintenance_log) + 1 \in MaintenanceRuns
    /\ maintenance' = [pc |-> "crawl", results |-> EmptyResults, ran |-> <<>>]
    /\ UNCHANGED <<maintenance_log, maintFrame>>

RunCrawlTask ==
    /\ maintenance.pc = "crawl"
    /\ \E ok \in BOOLEAN :
        LET crawled == WithResult(maintenance.results, "crawl", ok)
        IN  maintenance' =
                [pc |-> IF ok THEN "analysis" ELSE "cleanup",
                 results |-> IF ok THEN crawled
                             ELSE WithResult(WithResult(crawled, "analysis", FALSE),
                                             "report", FALSE),
                 ran |-> Append(maintenance.ran, "crawl")]
    /\ UNCHANGED <<maintenance_log, maintFrame>>

RunAnalysisTask ==
    /\ maintenance.pc = "analysis"
    /\ \E ok \in BOOLEAN :
        LET analysed == WithResult(maintenance.results, "analysis", ok)
        IN  maintenance' =
                [pc |-> IF ok THEN "report" ELSE "cleanup",
                 results |-> IF ok THEN analysed
                             ELSE WithResult(analysed, "report", FALSE),
                 ran |-> Append(maintenance.ran, "analysis")]
    /\ UNCHANGED <<maintenance_log, maintFrame>>

\* The call of run_report_task: made with keywords the function accepts it
\* runs the task; otherwise the call raises and run_full_maintenance ends
\* with that exception.
RunReportTask ==
    /\ maintenance.pc = "report"
    /\ IF ReportCallBinds
       THEN /\ \E ok \in BOOLEAN :
                  maintenance' =
                      [pc |-> "cleanup",
                       results |-> WithResult(maintenance.results, "report", ok),
                       ran |-> Append(maintenance.ran, "report")]
            /\ UNCHANGED maintenance_log
       ELSE /\ maintenance' = NoMaintenance
            /\ maintenance_log' =
                   Append(maintenance_log,
                          [outcome |-> "raised", ran |-> maintenance.ran,
                           results |-> maintenance.results, success |-> FALSE])
    /\ UNCHANGED maintFrame

RunCleanupTask ==
    /\ maintenance.pc = "cleanup"
    /\ \E ok \in BOOLEAN :
        maintenance' =
            [pc |-> "stats",
             results |-> WithResult(maintenance.results, "cleanup", ok),
             ran |-> Append(maintenance.ran, "cleanup")]
    /\ UNCHANGED <<maintenance_log, maintFrame>>

RunStatsTask ==
    /\ maintenance.pc = "stats"
    /\ \E ok \in BOOLEAN :
        maintenance' =
            [pc |-> "return",
             results |-> WithResult(maintenance.results, "stats", ok),
             ran |-> Append(maintenance.ran, "stats")]
    /\ UNCHANGED <<maintenance_log, maintFrame>>

ReturnMaintenanceResult ==
    /\ maintenance.pc = "return"
    /\ maintenance' = NoMaintenance
    /\ maintenance_log' =
           Append(maintenance_log,
                  [outcome |-> "returned", ran |-> maintenance.ran,
                   results |-> maintenance.results,
                   success |-> OverallSuccess(maintenance.results)])
    /\ UNCHANGED maintFrame

NextMaint ==
    \/ StartMaintenance
    \/ RunCrawlTask
    \/ RunAnalysisTask
    \/ RunReportTask
    \/ RunCleanupTask
    \/ RunStatsTask
    \/ ReturnMaintenanceResult

SpecMaint == InitMaint /\ WF_vars(NextMaint) /\ [][NextMaint]_vars

(***************************************************************************)
(* SpecSynth: the detail pages of two stored threads are parsed and their  *)
(* replies stored, page after page; a cell has a reply id of the site or   *)
(* none, and a reply without one gets the synthesized id.                  *)
(***************************************************************************)
\* What follows "r_" in a cell's id: two ids of the site, or nothing.
SynthSuffixes == {<<"7">>, <<"2", "0", "0", "1">>, <<>>}

SynthCells == [suffix : SynthSuffixes, raises : {FALSE}]

SynthPages ==
    {<<>>} \cup { <<c>> : c \in SynthCells } \cup { <<c, d>> : c \in SynthCells, d \in SynthCells }

SynthRuns == 1..2

\* The reply as it is handed to the store; its text is that of its thread.
ParsedReplyDict(reply_data) ==
    [ReplyDict(reply_data.id, reply_data.topic_id, reply_data.topic_id,
               reply_data.created_timestamp)
        EXCEPT !.reply_floor = reply_data.reply_floor]

InitSynth ==
    /\ v2ex_topics = TopicExecuteMany(EmptyTable, <<TopicDict(1, 1, 0), TopicDict(2, 1, 0)>>, 0)
    /\ v2ex_replies = EmptyTable
    /\ v2ex_users = {}
    /\ now = 0
    /\ lastOp = "init"
    /\ lastArgs = <<>>
    /\ FilterIdle
    /\ PipeIdle
    /\ CrawlIdle
    /\ FetchIdle
    /\ RestIdle

\* A detail page is parsed and its replies are upserted.
ParseAndStoreReplies ==
    \E topic_id \in ParseThreadIds, cells \in SynthPages :
        LET replies == ParseReplies(cells, topic_id, 0, now)
            dicts   == [k \in DOMAIN replies |-> ParsedReplyDict(replies[k])]
        IN  /\ Len(parsed_runs) + 1 \in SynthRuns
            /\ reply_cells' = cells
            /\ parse_topic_id' = topic_id
            /\ parsed_runs' = Append(parsed_runs, replies)
            /\ v2ex_replies' = BatchInsertOrUpdateRepliesOp(v2ex_replies, v2ex_topics, dicts, now)
            /\ lastOp' = "batch_insert_or_update_replies"
            /\ lastArgs' = dicts
            /\ UNCHANGED <<v2ex_topics, v2ex_users, now, filterVars, fetchVars, pipeVars,
                           crawlVars, reportVars, lockVars, extraVars>>

NextSynth == ParseAndStoreReplies

SpecSynth == InitSynth /\ [][NextSynth]_vars

(***************************************************************************)
(* SpecDup: the detail pipeline and the final save over a listing in which *)
(* a thread may appear twice: on page 1, parsed at clock 1, and again on a *)
(* later page, parsed at clock 2.  The workers are SpecPipe's.             *)
(***************************************************************************)
\* The listings: thread 1 on two pages; two different threads; thread 1 on
\* the first page and again after a whole batch of other threads.
DupListings ==
    { <<TopicDict(1, 1, 1), TopicDict(1, 1, 2)>>,
      <<TopicDict(1, 1, 1), TopicDict(2, 1, 2)>>,
      [i \in 1..(PipeBatchSize + 1) |->
          IF i = PipeBatchSize + 1 THEN TopicDict(1, 1, 2) ELSE TopicDict(i, 1, 1)] }

\* Nothing stored, or thread 1 stored by an earlier crawl.
DupStores == {EmptyTable, TopicExecuteMany(EmptyTable, <<TopicDict(1, 1, 0)>>, 0)}

InitDup ==
    /\ v2ex_topics \in DupStores
    /\ v2ex_replies = EmptyTable
    /\ v2ex_users = {}
    /\ now = 2
    /\ lastOp = "init"
    /\ lastArgs = <<>>
    /\ FilterIdle
    /\ \E node_topics \in DupListings :
          pipeline_topics = FilterTopicsToUpdateOp(v2ex_topics, node_topics)
    /\ worker = [i \in DOMAIN pipeline_topics |-> "queued"]
    /\ raiser \in {0, 2}
    /\ max_concurrent_replies \in {1, 2}
    /\ fetch_count = [i \in DOMAIN pipeline_topics |-> 0]
    /\ writes = <<>>
    /\ processed_count = 0
    /\ failed_count = 0
    /\ current_batch_topics = <<>>
    /\ current_batch_replies = <<>>
    /\ current_batch_users = <<>>
    /\ all_replies = <<>>
    /\ flush = NoFlush
    /\ returned = FALSE
    /\ CrawlIdle
    /\ FetchIdle
    /\ RestIdle

NextDup ==
    \/ StartWorker
    \/ WorkerSucceeds
    \/ WorkerRaises
    \/ WorkerAppendsFailed
    \/ PipelineReturns
    \/ SaveAfterPipeline

SpecDup == InitDup /\ [][NextDup]_vars

(***************************************************************************)
(* SpecRate: the coroutines of _get_replies_batch_async on one event loop. *)
(* A coroutine runs without interruption up to its next await: the sleep   *)
(* of _rate_limit_async and the request itself.  The clock counts seconds. *)
(***************************************************************************)
rate_limit_delay == 1

Coroutines == 1..3

RateClock == 2..5

\* The coroutines that hold the semaphore.
InsideSemaphore == {i \in DOMAIN coroutine : coroutine[i].pc \in {"sleeping", "requesting"}}

InitRate ==
    /\ v2ex_topics = EmptyTable
    /\ v2ex_replies = EmptyTable
    /\ v2ex_users = {}
    /\ now = 2
    /\ lastOp = "init"
    /\ lastArgs = <<>>
    /\ FilterIdle
    /\ CrawlIdle
    /\ FetchIdle
    /\ ParseIdle
    /\ ReportIdle
    /\ LockIdle
    /\ BackoffIdle
    /\ MaintIdle
    /\ pipeline_topics = <<>>
    /\ max_concurrent_replies \in {1, 2, 3}
    /\ raiser = 0
    /\ worker = <<>>
    /\ processed_count = 0
    /\ failed_count = 0
    /\ current_batch_topics = <<>>
    /\ current_batch_replies = <<>>
    /\ current_batch_users = <<>>
    /\ all_replies = <<>>
    /\ flush = NoFlush
    /\ returned = FALSE
    /\ fetch_count = <<>>
    /\ writes = <<>>
    /\ last_request_time = 0
    /\ coroutine = [i \in Coroutines |-> [pc |-> "waiting", wake |-> 0]]
    /\ request_starts = <<>>

rateFrame ==
    <<v2ex_topics, v2ex_replies, v2ex_users, lastOp, lastArgs, filterVars, fetchVars,
      pipeVars, crawlVars, parseVars, reportVars, lockVars, backoffVars, maintVars>>

\* time.time() moves on
TickRate ==
    /\ now + 1 \in RateClock
    /\ now' = now + 1
    /\ UNCHANGED <<rateVars, rateFrame>>

\* async with semaphore, then _rate_limit_async up to its await: the
\* coroutine goes to sleep for the rest of the delay, or, the delay being
\* over, records the time and starts its request.
EnterRateLimit ==
    \E i \in DOMAIN coroutine :
        /\ coroutine[i].pc = "waiting"
        /\ Cardinality(InsideSemaphore) < max_concurrent_replies
        /\ LET current_time    == now
               time_since_last == current_time - last_request_time
               sleep_time      == rate_limit_delay - time_since_last
           IN  IF time_since_last < rate_limit_delay
               THEN /\ coroutine' = [coroutine EXCEPT
                                        ![i] = [pc |-> "sleeping", wake |-> now + sleep_time]]
                    /\ UNCHANGED <<last_request_time, request_starts>>
               ELSE /\ coroutine' = [coroutine EXCEPT ![i] = [pc |-> "requesting", wake |-> 0]]
                    /\ last_request_time' = now
                    /\ request_starts' = Append(request_starts, now)
        /\ UNCHANGED <<now, rateFrame>>

\* The sleep is over: the time is recorded and the request starts.
WakeAndRequest ==
    \E i \in DOMAIN coroutine :
        /\ coroutine[i].pc = "sleeping"
        /\ now >= coroutine[i].wake
        /\ coroutine' = [coroutine EXCEPT ![i] = [pc |-> "requesting", wake |-> 0]]
        /\ last_request_time' = now
        /\ request_starts' = Append(request_starts, now)
        /\ UNCHANGED <<now, rateFrame>>

\* The response arrives and the semaphore is released.
FinishRequest ==
    \E i \in DOMAIN coroutine :
        /\ coroutine[i].pc = "requesting"
        /\ coroutine' = [coroutine EXCEPT ![i] = [pc |-> "done", wake |-> 0]]
        /\ UNCHANGED <<now, last_request_time, request_starts, rateFrame>>

NextRate == TickRate \/ EnterRateLimit \/ WakeAndRequest \/ FinishRequest

SpecRate == InitRate /\ [][NextRate]_vars

(***************************************************************************)
(* Properties.                                                             *)
(***************************************************************************)
TopicUpsertOps == {"insert_or_update_topic", "batch_insert_or_update_topics"}

ReplyUpsertOps == {"insert_or_update_reply", "batch_insert_or_update_replies"}

WithoutCrawledAt(T) == [i \in DOMAIN T |-> [T[i] EXCEPT !.crawled_at = 0]]

\* The stored last-activity timestamp of a listed thread, NULL included.
StoredLastTouched(t) == v2ex_topics[t.id].last_touched_timestamp

\* C1 as the filter behaves: a listed thread is returned exactly when
\* storage has no record of it, or the record has no last-activity
\* timestamp, or the scraped timestamp is strictly greater than the stored
\* one; the returned list keeps the listing's order.
C1_KeptIffNewNullOrNewer ==
    lastOp = "_filter_topics_to_update" =>
        LET keep(t) == \/ t.id \notin DOMAIN v2ex_topics
                       \/ StoredLastTouched(t) = NULL
                       \/ /\ t.last_touched # NULL
                          /\ t.last_touched > StoredLastTouched(t)
        IN  kept = SelectSeq(listed, keep)

\* C1 as stated: returned exactly when storage has no record, or the scraped
\* timestamp is strictly greater than the stored one.
C1_KeptIffNewOrNewer ==
    lastOp = "_filter_topics_to_update" =>
        LET keep(t) == \/ t.id \notin DOMAIN v2ex_topics
                       \/ /\ StoredLastTouched(t) # NULL
                          /\ t.last_touched # NULL
                          /\ t.last_touched > StoredLastTouched(t)
        IN  kept = SelectSeq(listed, keep)

\* A filter call over two listed threads, one stored with an equal
\* timestamp (dropped) and one stored without a timestamp (kept).
C1_Witness ==
    /\ lastOp = "_filter_topics_to_update"
    /\ Len(listed) = 2
    /\ Len(kept) = 1
    /\ listed[1].id \in DOMAIN v2ex_topics
    /\ StoredLastTouched(listed[1]) = listed[1].last_touched
    /\ listed[1].last_touched # NULL
    /\ kept[1] = listed[2]
    /\ listed[2].id \in DOMAIN v2ex_topics
    /\ StoredLastTouched(listed[2]) = NULL

\* C7: applying the batch thread upsert a second time to the same batch
\* leaves the table as the first application left it, the fetch timestamp
\* aside.
C7_BatchUpsertIdempotent ==
    \A batch \in TopicBatches(now) : \A later \in now..MaxClock :
        LET once  == BatchInsertOrUpdateTopicsOp(v2ex_topics, batch, now)
            twice == BatchInsertOrUpdateTopicsOp(once, batch, later)
        IN  WithoutCrawledAt(twice) = WithoutCrawledAt(once)

\* The table right after a batch of two accepted threads that it had held
\* before: applying the batch again changes no column but the fetch time.
C7_Witness ==
    /\ lastOp = "batch_insert_or_update_topics"
    /\ now > 0
    /\ \E batch \in TopicBatches(now) :
          /\ Len(batch) = 2
          /\ batch[1].id # batch[2].id
          /\ TopicBatchAccepted(batch)
          /\ DOMAIN v2ex_topics = {batch[1].id, batch[2].id}
          /\ \A i \in 1..2 : v2ex_topics[batch[i].id].title = SanitizeTopic(batch[i]).title
          /\ \E i \in 1..2 : v2ex_topics[batch[i].id].url # SanitizeTopic(batch[i]).url
          /\ BatchInsertOrUpdateTopicsOp(v2ex_topics, batch, now) = v2ex_topics

TopicFrame(row) ==
    <<row.url, row.node_name, row.member_username, row.created_timestamp,
      row.total_thanks_count, row.hotness_score>>

\* C8: a thread upsert keeps every stored thread, and leaves its URL,
\* section, author, creation timestamp, total thanks and hotness score as
\* they were.
C8_TopicUpsertFrame ==
    [][lastOp' \in TopicUpsertOps =>
          \A id \in DOMAIN v2ex_topics :
              /\ id \in DOMAIN v2ex_topics'
              /\ TopicFrame(v2ex_topics'[id]) = TopicFrame(v2ex_topics[id])]_vars

\* A scored thread after an upsert of a record with another URL, section
\* and author: the mutable columns are the record's, the others are not.
C8_Witness ==
    /\ lastOp \in TopicUpsertOps
    /\ \E id \in DOMAIN v2ex_topics :
          LET row == v2ex_topics[id]
          IN  /\ row.title.tag = 2
              /\ row.is_deleted = 1
              /\ row.replies = RepliesCeiling
              /\ row.crawled_at > row.created_timestamp
              /\ row.url.tag = 10 * id + 1
              /\ row.node_name = 1
              /\ row.total_thanks_count = 20
              /\ row.hotness_score = Dec(110, 0)

ReplyFrame(row) ==
    <<row.topic_id, row.member_username, row.reply_floor, row.created_timestamp>>

\* C9: a reply upsert keeps every stored reply, and leaves its parent
\* thread id, author, floor number and creation timestamp as they were.
C9_ReplyUpsertFrame ==
    [][lastOp' \in ReplyUpsertOps =>
          \A id \in DOMAIN v2ex_replies :
              /\ id \in DOMAIN v2ex_replies'
              /\ ReplyFrame(v2ex_replies'[id]) = ReplyFrame(v2ex_replies[id])]_vars

\* A stored reply after an upsert of a record with another parent, author
\* and floor: body and endorsements are the record's, the others are not.
C9_Witness ==
    /\ lastOp \in ReplyUpsertOps
    /\ \E id \in DOMAIN v2ex_replies :
          LET row == v2ex_replies[id]
          IN  /\ row.content.tag = 2
              /\ row.thanks_count = 20
              /\ row.crawled_at > row.created_timestamp
              /\ row.reply_floor = 1
              /\ row.member_username.tag = 1
              /\ row.topic_id = 1

\* The threads a scoring call names: all of them without an id list.
NamedThreads(T, topic_ids) ==
    IF topic_ids = NoIds THEN DOMAIN T ELSE DOMAIN T \cap topic_ids

\* <<q, r>> with a * b = q * d + r and 0 <= r < d, without forming a * b:
\* b is taken eight bits at a time (a and d stay below 2^23).
RECURSIVE MulDivMod(_, _, _)
MulDivMod(a, b, d) ==
    IF b = 0 THEN <<0, 0>>
    ELSE LET h   == MulDivMod(a, b \div 256, d)
             add == a * (b % 256)
             r   == 256 * h[2] + (add % d)
         IN  <<256 * h[1] + (add \div d) + (r \div d), r % d>>

\* p * num / den rounded to four decimals
RoundedQuotient(p, num, den) ==
    LET w  == MulDivMod(num, p, den)
        f  == MulDivMod(w[2], 10000, den)
        f4 == IF 2 * f[2] >= den THEN f[1] + 1 ELSE f[1]
    IN  IF f4 = 10000 THEN Dec(w[1] + 1, 0) ELSE Dec(w[1], f4)

\* Two scores no more than a thousandth apart: what the nine decimals of
\* the engine's quotient and the four of the column leave of a product
\* below a million.
Near(x, y) ==
    /\ x.whole - y.whole \in {0 - 1, 0, 1}
    /\ (x.whole - y.whole) * 10000 + (x.frac - y.frac) \in (0 - 10)..10

\* min((rc * rw + te * ew) * max(0.1, 1 - age / (H * 3600)), maxScore) to
\* four decimals, the weights in tenths.
StatedScore(rc, te, age, p) ==
    LET raw10  == rc * p.reply_weight10 + te * p.thanks_weight10
        window == p.time_decay_hours * 3600
        scaled == IF 10 * age >= 9 * window
                  THEN Dec(raw10 \div 100, (raw10 % 100) * 100)
                  ELSE RoundedQuotient(raw10, window - age, 10 * window)
    IN  IF DecLeq(p.max_score, scaled) THEN p.max_score ELSE scaled

\* C10: after update_hotness_scores every named thread with a last-activity
\* timestamp carries the stated score, to within a thousandth; with the
\* default parameters a thread with 10 replies and 20 thanks, one hour old,
\* carries 109.3452.
C10_HotnessFormula ==
    lastOp = "update_hotness_scores" =>
        \A id \in NamedThreads(v2ex_topics, lastArgs.topic_ids) :
            LET row == v2ex_topics[id]
                age == now - row.last_touched_timestamp
            IN  row.last_touched_timestamp # NULL =>
                  /\ Near(row.hotness_score,
                          StatedScore(row.replies, row.total_thanks_count, age, lastArgs.params))
                  /\ ( /\ lastArgs.params = DefaultHotnessParams
                       /\ row.replies = 10
                       /\ row.total_thanks_count = 20
                       /\ age = 3600 ) => row.hotness_score = Dec(109, 3452)

\* The example of the claim: 10 replies, 20 thanks, scored one hour after
\* the last activity with the default parameters.
C10_Witness ==
    /\ lastOp = "update_hotness_scores"
    /\ lastArgs.params = DefaultHotnessParams
    /\ \E id \in NamedThreads(v2ex_topics, lastArgs.topic_ids) :
          /\ v2ex_topics[id].replies = 10
          /\ v2ex_topics[id].total_thanks_count = 20
          /\ now - v2ex_topics[id].last_touched_timestamp = 3600
          /\ v2ex_topics[id].hotness_score = Dec(109, 3452)

\* Every record of the pipeline's input is one the thread table accepts, so
\* that no write of the run fails.
WritesSucceed ==
    \A i \in DOMAIN pipeline_topics : TopicRowAccepted(SanitizeTopic(pipeline_topics[i]))

EveryThreadWritten ==
    \A i \in DOMAIN pipeline_topics : pipeline_topics[i].id \in DOMAIN v2ex_topics

\* C2 as stated: after a pipeline batch whose upsert failed, every thread of
\* the batch that the table accepts on its own is stored, and so is every
\* reply of the batch whose thread is among them.
C2_FailedBatchStoredOneByOne ==
    (flush.attempted /\ flush.failed) =>
        LET valid == {flush.topics[i].id :
                        i \in {j \in 1..Len(flush.topics) :
                                 TopicRowAccepted(SanitizeTopic(flush.topics[j]))}}
        IN  /\ valid \subseteq DOMAIN v2ex_topics
            /\ \A j \in 1..Len(flush.replies) :
                  flush.replies[j].topic_id \in valid =>
                      flush.replies[j].id \in DOMAIN v2ex_replies

\* C3 as stated: when the pipeline has returned and no write failed, every
\* thread of the input list is stored.
C3_ReturnedImpliesEveryThreadWritten ==
    (returned /\ WritesSucceed) => EveryThreadWritten

\* The part of C3 the pipeline keeps: a run in which no worker raises.
ReturnedWithoutRaiseImpliesWritten ==
    (returned /\ WritesSucceed /\ raiser = 0) => EveryThreadWritten

\* The part of C4 the pipeline keeps: never more fetches in flight than the
\* configured bound.
InFlightWithinBound == Cardinality(Running) <= max_concurrent_replies

\* C4 as stated: the fetches in flight never exceed the configured bound,
\* and under the bound 1 they run one at a time and the returned run has
\* stored every thread.
C4_BoundedAndSerialRunPersists ==
    /\ Cardinality(Running) <= max_concurrent_replies
    /\ max_concurrent_replies = 1 =>
          /\ Cardinality(Running) <= 1
          /\ (returned /\ WritesSucceed) => EveryThreadWritten

\* C5 as stated: the serial and the concurrent run over the same pages and
\* from the same store, no section failing, end with the same threads,
\* replies and authors stored and return the same counts.
C5_ModesAgree ==
    ( /\ serial_run.done
      /\ crawl_result # NoResult
      /\ serial_run.failed = {}
      /\ failed_sections = {} ) =>
        /\ WithoutCrawledAt(v2ex_topics) = WithoutCrawledAt(serial_run.store.topics)
        /\ WithoutCrawledAt(v2ex_replies) = WithoutCrawledAt(serial_run.store.replies)
        /\ v2ex_users = serial_run.store.users
        /\ crawl_result = serial_run.result

\* The threads of a section that the run is to update.
ExpectedTopics(section) == FilterTopicsToUpdateOp(store0.topics, Listing(section, now))

\* C6: when the run returns, every section has been crawled, the result
\* counts the threads of the sections that did not fail, and these threads
\* are stored, with the replies of those listed with replies.
C6_FailedSectionDoesNotAbort ==
    crawl_result # NoResult =>
        LET count(s) == IF s \in failed_sections THEN 0 ELSE Len(ExpectedTopics(s))
        IN  /\ \A s \in Sections : node_results[s] # Pending
            /\ crawl_result.success
            /\ crawl_result.topics_found = count(1) + count(2)
            /\ \A s \in Sections \ failed_sections :
                  \A i \in 1..Len(ExpectedTopics(s)) :
                      LET t == ExpectedTopics(s)[i]
                          replies == DetailPage(t.id, now).replies
                      IN  /\ t.id \in DOMAIN v2ex_topics
                          /\ t.replies > 0 =>
                                /\ crawl_result.replies_saved >= Len(replies)
                                /\ \A j \in 1..Len(replies) :
                                      replies[j].id \in DOMAIN v2ex_replies

\* Both runs done with a failed first section: each returned the thread of
\* the second section, which the store did not hold before.
C6_Witness ==
    /\ serial_run.done
    /\ serial_run.failed = {1}
    /\ serial_run.result.topics_found = 1
    /\ 2 \in DOMAIN serial_run.store.topics
    /\ crawl_result # NoResult
    /\ failed_sections = {1}
    /\ crawl_result.topics_found = 1
    /\ 2 \in DOMAIN v2ex_topics
    /\ 2 \notin DOMAIN store0.topics

\* The product of the weighted sum and a decay of exactly 0.1, capped: the
\* least score the floor of the decay allows.
FloorScore(row, p) ==
    LET raw10   == row.replies * p.reply_weight10
                   + row.total_thanks_count * p.thanks_weight10
        product == StoredProduct(raw10, Billion \div 10)
    IN  IF DecLeq(product, p.max_score) THEN product ELSE p.max_score

\* C11: every score update_hotness_scores writes for a thread with a
\* last-activity timestamp lies between 0 and the maximum score, and the
\* decay factor it was computed with is at least 0.1, so that the score is
\* never below a tenth of the weighted sum (or the maximum).
C11_ScoreWithinBounds ==
    lastOp = "update_hotness_scores" =>
        \A id \in NamedThreads(v2ex_topics, lastArgs.topic_ids) :
            LET row == v2ex_topics[id]
                p   == lastArgs.params
                age == now - row.last_touched_timestamp
            IN  row.last_touched_timestamp # NULL =>
                  /\ DecLeq(Dec(0, 0), row.hotness_score)
                  /\ DecLeq(row.hotness_score, p.max_score)
                  /\ DecayFactor9(age, p.time_decay_hours * 3600) >= Billion \div 10
                  /\ DecayFactor9(age, p.time_decay_hours * 3600) <= Billion
                  /\ DecLeq(FloorScore(row, p), row.hotness_score)

\* A thread scored a whole decay window after its last activity, where the
\* floor of the decay is what keeps the score above zero, and a thread whose
\* score the maximum cut.
C11_Witness ==
    /\ lastOp = "update_hotness_scores"
    /\ \E id \in NamedThreads(v2ex_topics, lastArgs.topic_ids) :
          LET row == v2ex_topics[id]
          IN  /\ row.last_touched_timestamp # NULL
              /\ now - row.last_touched_timestamp >= lastArgs.params.time_decay_hours * 3600
              /\ row.replies > 0
              /\ row.hotness_score = FloorScore(row, lastArgs.params)
              /\ row.hotness_score # Dec(0, 0)
              /\ row.hotness_score # lastArgs.params.max_score

\* Ages, in seconds, around the ends of the two decay windows.
AgeSamples ==
    {0, 1, 1800, 3239, 3240, 3241, 3599, 3600, 3601, 86400,
     544319, 544320, 544321, 604799, 604800, 604801, 700000}

\* C12: with the reply count, the endorsement total, the weights and the
\* maximum fixed, a larger age never gives a larger score: this holds of the
\* score expression at any two sampled ages, and of the score
\* update_hotness_scores stored against every sampled age.
C12_ScoreMonotoneInAge ==
    \A id \in DOMAIN v2ex_topics :
        LET row == v2ex_topics[id]
            lt  == row.last_touched_timestamp
        IN  lt # NULL =>
              /\ \A p \in HotnessParamSets : \A a1 \in AgeSamples, a2 \in AgeSamples :
                    a1 <= a2 => DecLeq(HotnessSql(row, p, lt + a2), HotnessSql(row, p, lt + a1))
              /\ ( /\ lastOp = "update_hotness_scores"
                   /\ id \in NamedThreads(v2ex_topics, lastArgs.topic_ids) ) =>
                     \A a \in AgeSamples :
                        /\ a <= now - lt =>
                              DecLeq(row.hotness_score, HotnessSql(row, lastArgs.params, lt + a))
                        /\ a >= now - lt =>
                              DecLeq(HotnessSql(row, lastArgs.params, lt + a), row.hotness_score)

\* A thread scored one hour after its last activity: its score is strictly
\* below the one of age zero and strictly above the one of seven days.
C12_Witness ==
    /\ lastOp = "update_hotness_scores"
    /\ \E id \in NamedThreads(v2ex_topics, lastArgs.topic_ids) :
          LET row == v2ex_topics[id]
              lt  == row.last_touched_timestamp
          IN  /\ lt # NULL
              /\ now - lt = 3600
              /\ row.hotness_score # HotnessSql(row, lastArgs.params, lt)
              /\ row.hotness_score # HotnessSql(row, lastArgs.params, lt + 604800)

\* C13 as stated: update_hotness_scores leaves the stored score of a thread
\* without a last-activity timestamp as it was.
C13_NullActivityScoreUnchanged ==
    [][ lastOp' = "update_hotness_scores" =>
          \A id \in DOMAIN v2ex_topics :
              v2ex_topics[id].last_touched_timestamp = NULL =>
                  v2ex_topics'[id].hotness_score = v2ex_topics[id].hotness_score ]_vars

\* SUM(thanks_count) over the replies of a thread, written out over the
\* reply ids of the model; 0 when the thread has none.
StatedThanks(R, id) ==
    LET thanks(r) == IF r \in DOMAIN R /\ R[r].topic_id = id THEN R[r].thanks_count ELSE 0
    IN  thanks(1) + thanks(2)

\* C14: after update_total_thanks the endorsement total of every named
\* thread is the sum of the endorsement counts of its stored replies, 0 for
\* a thread without replies.
C14_TotalThanksIsSum ==
    lastOp = "update_total_thanks" =>
        \A id \in NamedThreads(v2ex_topics, lastArgs.topic_ids) :
            /\ v2ex_topics[id].total_thanks_count = StatedThanks(v2ex_replies, id)
            /\ (\A r \in DOMAIN v2ex_replies : v2ex_replies[r].topic_id # id) =>
                   v2ex_topics[id].total_thanks_count = 0

\* Two named threads after update_total_thanks: one with two endorsed
\* replies whose counts were added, one without replies whose total is 0.
C14_Witness ==
    /\ lastOp = "update_total_thanks"
    /\ \E id \in NamedThreads(v2ex_topics, lastArgs.topic_ids) :
          /\ Cardinality({r \in DOMAIN v2ex_replies : v2ex_replies[r].topic_id = id}) = 2
          /\ v2ex_topics[id].total_thanks_count = 40
    /\ \E id \in NamedThreads(v2ex_topics, lastArgs.topic_ids) :
          /\ \A r \in DOMAIN v2ex_replies : v2ex_replies[r].topic_id # id
          /\ v2ex_topics[id].total_thanks_count = 0

\* C15: each scoring operation run a second time at the same clock, with the
\* same arguments and no write in between, leaves the thread table as the
\* first run left it; so does the pair of them that analyze_recent_topics
\* runs.
C15_ScoringIdempotent ==
    \A ids \in IdLists :
        LET thanked == UpdateTotalThanksOp(v2ex_topics, v2ex_replies, ids)
        IN  /\ UpdateTotalThanksOp(thanked, v2ex_replies, ids) = thanked
            /\ \A p \in HotnessParamSets :
                  LET scored == UpdateHotnessScoresOp(v2ex_topics, ids, p, now)
                      both   == UpdateHotnessScoresOp(thanked, ids, p, now)
                  IN  /\ UpdateHotnessScoresOp(scored, ids, p, now) = scored
                      /\ UpdateHotnessScoresOp(
                             UpdateTotalThanksOp(both, v2ex_replies, ids), ids, p, now) = both

\* A table that update_hotness_scores has just changed, with a positive
\* endorsement total and a decayed score, which a second run of either
\* operation with the same arguments leaves alone.
C15_Witness ==
    /\ lastOp = "update_hotness_scores"
    /\ now > 0
    /\ \E id \in NamedThreads(v2ex_topics, lastArgs.topic_ids) :
          /\ v2ex_topics[id].total_thanks_count > 0
          /\ v2ex_topics[id].hotness_score # NullScore
          /\ v2ex_topics[id].hotness_score # Dec(0, 0)
    /\ UpdateHotnessScoresOp(v2ex_topics, lastArgs.topic_ids, lastArgs.params, now) = v2ex_topics
    /\ UpdateTotalThanksOp(v2ex_topics, v2ex_replies, lastArgs.topic_ids) = v2ex_topics

\* Page i of the loop was requested: it has a result, or its request is
\* under way.
PageRequested(i) ==
    i \in DOMAIN page_results \/ (i = page /\ pc \in {"request", "soup"})

\* C16 as stated: the pages of a section are requested in the order 1, 2,
\* ..., never more than max_pages of them, and a page after the first is
\* requested only when the page before it was fetched and held an entry: an
\* empty or failed page, the first included, ends the section's crawl.
C16_PagesInOrderStopAfterFailure ==
    /\ Len(page_results) <= max_pages
    /\ \A i \in DOMAIN page_results : page_results[i].page = i
    /\ \A i \in 2..max_pages :
          PageRequested(i) => page_results[i - 1].outcome = "entries"

\* What the page loop does guarantee: the order, the limit, and that a page
\* is requested after an empty page never, after a page that raised only
\* when that page was the first.
PagesInOrderUnlessFirstPageRaised ==
    /\ Len(page_results) <= max_pages
    /\ \A i \in DOMAIN page_results : page_results[i].page = i
    /\ \A i \in 2..max_pages :
          PageRequested(i) =>
              \/ page_results[i - 1].outcome = "entries"
              \/ i = 2 /\ page_results[1].outcome = "raised"

\* C17: a listing-page request makes at most max_retries + 1 attempts
\* whatever they meet (200, 429, another status, a network error); it
\* returns None only after max_retries + 1 attempts none of which met 200,
\* and parse_node_page then returns the empty list; and every request comes
\* to an end.
C17_RequestBoundedAndTerminates ==
    /\ [](/\ Len(responses) <= max_retries + 1
          /\ (pc = "soup" /\ soup = "None") =>
                /\ Len(responses) = max_retries + 1
                /\ \A i \in DOMAIN responses : responses[i] # "200"
          /\ (pc = "soup" /\ soup = "soup") =>
                /\ responses[Len(responses)] = "200"
                /\ \A i \in 1..(Len(responses) - 1) : responses[i] # "200")
    /\ [][(pc = "soup" /\ soup = "None") =>
              page_results' = Append(page_results, [page |-> page, outcome |-> "empty"])]_vars
    /\ (pc = "request") ~> (pc # "request")

\* A page whose request met 429, another status and a network error in its
\* four attempts under max_retries = 3, and was given up as empty.
C17_Witness ==
    /\ max_retries = 3
    /\ pc = "returned"
    /\ Len(responses) = 4
    /\ {responses[i] : i \in DOMAIN responses} = {"429", "500", "error"}
    /\ page_results # <<>>
    /\ page_results[Len(page_results)] = [page |-> page, outcome |-> "empty"]

\* C18 as stated: a detail fetch never raises, and it gives the empty
\* result for a transient error only after the configured number of
\* retries, that is after max_retries + 1 requests.
C18_DetailFetchRetriedBeforeDegrading ==
    detail.done =>
        /\ ~detail.raised
        /\ detail.result = "empty" => Len(detail.responses) = max_retries + 1

\* What the detail fetches do guarantee: they never raise, and they give the
\* empty result exactly when their one request did not meet 200.
DetailFetchNeverRaises ==
    detail.done =>
        /\ ~detail.raised
        /\ Len(detail.responses) = 1
        /\ detail.result = "empty" <=> detail.responses[1] # "200"

RepliesReturned ==
    Cardinality({i \in DOMAIN pipeline_topics :
                    i # raiser /\ DetailPage(pipeline_topics[i].id, now).replies # <<>>})

BothRunsComplete ==
    /\ serial_run.done
    /\ serial_run.failed = {}
    /\ serial_run.result.success
    /\ crawl_result # NoResult
    /\ failed_sections = {}

\* The second crawl kept no thread: no detail was fetched and the run
\* reports 0 threads.
SecondRunKeptNothing ==
    /\ \A s \in Sections : node_results[s].topics_to_update = <<>>
    /\ \A s \in Sections : node_results[s].all_replies = <<>>
    /\ crawl_result.topics_found = 0
    /\ crawl_result.topics_crawled = 0

\* C21 as stated: a crawl run again right after a completed crawl, the
\* listing pages being the same, keeps no thread: no detail fetch is made
\* and the run reports 0 threads updated.
C21_RerunExcludesEveryThread ==
    BothRunsComplete => SecondRunKeptNothing

\* What the filter does guarantee: the second crawl keeps nothing when the
\* clock did not move since the run began.
RerunWithinOneSecondExcludesEveryThread ==
    (BothRunsComplete /\ now = 1) => SecondRunKeptNothing

\* The listed threads of the run that the thread table holds
PersistedThreads == {i \in DOMAIN pipeline_topics : pipeline_topics[i].id \in DOMAIN v2ex_topics}

\* C22 as stated: the counts a run reports are those of the items that were
\* persisted: the threads reported are the listed threads the store holds,
\* the replies reported are the replies the store holds, and no more users
\* are reported than the store holds.
C22_CountsArePersistedItems ==
    crawl_result # NoResult =>
        /\ crawl_result.topics_crawled = Cardinality(PersistedThreads)
        /\ crawl_result.replies_saved = Cardinality(DOMAIN v2ex_replies)
        /\ crawl_result.users_saved <= Cardinality(v2ex_users)

\* What the counts are: the lengths of the lists handed to the saving,
\* whatever became of the writes; they are the persisted items when no
\* write was refused.
CountsAreListLengths ==
    crawl_result # NoResult =>
        /\ crawl_result.topics_crawled = Len(pipeline_topics)
        /\ crawl_result.replies_saved = Len(all_replies)
        /\ crawl_result.users_saved <= Cardinality(v2ex_users)
        /\ WritesSucceed => C22_CountsArePersistedItems

\* The positions, in document order, of the cells a run returns a reply for.
ParsedPositions == {i \in 1..Len(reply_cells) : ~reply_cells[i].raises}

RepliesAt(run, i) == {k \in 1..Len(run) : run[k].reply_floor = i}

\* C23: a reply whose cell has no parseable id gets thread_id * 1000 + floor,
\* floor being the 1-based position of its cell in document order, and two
\* runs over the same page give every reply the same id.
C23_SyntheticReplyIdStable ==
    /\ \A r \in 1..Len(parsed_runs) :
          /\ Len(parsed_runs[r]) = Cardinality(ParsedPositions)
          /\ \A i \in ParsedPositions :
                /\ Cardinality(RepliesAt(parsed_runs[r], i)) = 1
                /\ ~IntParses(reply_cells[i].suffix) =>
                      \A k \in RepliesAt(parsed_runs[r], i) :
                          parsed_runs[r][k].id = parse_topic_id * 1000 + i
    /\ \A r1, r2 \in 1..Len(parsed_runs) :
          /\ Len(parsed_runs[r1]) = Len(parsed_runs[r2])
          /\ \A k \in 1..Len(parsed_runs[r1]) : parsed_runs[r1][k].id = parsed_runs[r2][k].id

\* Two runs at different clocks over a page whose second and third cells have
\* no parseable id, the first cell being dropped.
C23_Witness ==
    /\ Len(parsed_runs) = 2
    /\ Len(reply_cells) = 3
    /\ reply_cells[1].raises
    /\ reply_cells[2] = [suffix |-> <<"4", "x">>, raises |-> FALSE]
    /\ reply_cells[3] = [suffix |-> <<>>, raises |-> FALSE]
    /\ parse_topic_id = 2
    /\ parsed_runs[1][1].id = 2002
    /\ parsed_runs[2][2].id = 2003
    /\ parsed_runs[1][1].created_timestamp < parsed_runs[2][1].created_timestamp

\* A text within its maximum is stored as handed in, a longer one with at
\* most the maximum length.
StoredWithin(stored, given, max_chars) ==
    /\ stored.len <= max_chars
    /\ given.len <= max_chars => stored = given
    /\ given.len > max_chars => stored.tag = given.tag

\* C24: a thread title, thread body or reply body longer than its maximum
\* (500, 16000, 3000 characters) is stored with a length that does not exceed
\* the maximum, the truncation marker of a body included; a value within the
\* maximum is stored unchanged.
C24_StoredTextsWithinMaximum ==
    /\ \A id \in DOMAIN v2ex_topics :
          /\ v2ex_topics[id].title.len <= 500
          /\ v2ex_topics[id].content.len <= 16000
    /\ \A id \in DOMAIN v2ex_replies : v2ex_replies[id].content.len <= 3000
    /\ lastOp \in TopicUpsertOps =>
          \A k \in 1..Len(lastArgs) :
              /\ lastArgs[k].id \in DOMAIN v2ex_topics
              /\ StoredWithin(v2ex_topics[lastArgs[k].id].title, lastArgs[k].title, 500)
              /\ StoredWithin(v2ex_topics[lastArgs[k].id].content, lastArgs[k].content, 16000)
    /\ lastOp \in ReplyUpsertOps =>
          \A k \in 1..Len(lastArgs) :
              /\ lastArgs[k].id \in DOMAIN v2ex_replies
              /\ StoredWithin(v2ex_replies[lastArgs[k].id].content, lastArgs[k].content, 3000)

\* A thread with an over-long title and body and a reply with an over-long
\* body are stored, the bodies cut and marked.
C24_Witness ==
    /\ lastOp = "insert_or_update_reply"
    /\ DOMAIN v2ex_topics = {1, 2}
    /\ lastArgs[1].content.len = 3001
    /\ v2ex_replies[1].content.cut
    /\ v2ex_replies[1].content.len = 3000
    /\ v2ex_topics[1].title.len = 500
    /\ v2ex_topics[1].content.cut
    /\ v2ex_topics[1].content.len = 16000
    /\ v2ex_topics[2].content.len = 15999

\* The threads of the store that are before the cutoff: by last activity, or
\* by creation when there is no last activity.
BeforeCutoff(cutoff) ==
    {id \in DOMAIN v2ex_topics :
        IF v2ex_topics[id].last_touched_timestamp = NULL
        THEN v2ex_topics[id].created_timestamp < cutoff
        ELSE v2ex_topics[id].last_touched_timestamp < cutoff}

PurgedExactly(cutoff, count) ==
    /\ DOMAIN v2ex_topics' = DOMAIN v2ex_topics \ BeforeCutoff(cutoff)
    /\ \A id \in DOMAIN v2ex_topics' : v2ex_topics'[id] = v2ex_topics[id]
    /\ DOMAIN v2ex_replies' =
          {r \in DOMAIN v2ex_replies : v2ex_replies[r].topic_id \notin BeforeCutoff(cutoff)}
    /\ \A r \in DOMAIN v2ex_replies' : v2ex_replies'[r] = v2ex_replies[r]
    /\ v2ex_users' = v2ex_users
    /\ count = Cardinality(BeforeCutoff(cutoff))

\* C25: clean_old_data deletes exactly the threads whose last activity, or
\* creation when the last activity is null, is before the cutoff, with all
\* their replies; every other thread and reply is unchanged and the returned
\* count is the number of threads deleted.
C25_PurgeDeletesExactlyExpired ==
    [][lastOp' = "clean_old_data" =>
          PurgedExactly(lastArgs'.cutoff_timestamp, lastArgs'.deleted_count)]_vars

\* A purge took thread 2 with its reply and thread 1, which had no last
\* activity, and left thread 3, whose last activity is at the cutoff, with
\* its two replies.
C25_Witness ==
    /\ lastOp = "clean_old_data"
    /\ lastArgs.deleted_count = 2
    /\ lastArgs.cutoff_timestamp = DaySeconds
    /\ DOMAIN v2ex_topics = {3}
    /\ v2ex_topics[3].last_touched_timestamp = DaySeconds
    /\ DOMAIN v2ex_replies = {31, 32}

\* Two upserts of threads and two upserts of replies, at one clock value,
\* leave the same table in either order.
UpsertsCommute(topic_pairs, reply_pairs) ==
    /\ \A p \in topic_pairs :
          InsertOrUpdateTopicOp(InsertOrUpdateTopicOp(v2ex_topics, p[1], now), p[2], now)
             = InsertOrUpdateTopicOp(InsertOrUpdateTopicOp(v2ex_topics, p[2], now), p[1], now)
    /\ \A p \in reply_pairs :
          InsertOrUpdateReplyOp(
                InsertOrUpdateReplyOp(v2ex_replies, v2ex_topics, p[1], now),
                v2ex_topics, p[2], now)
             = InsertOrUpdateReplyOp(
                   InsertOrUpdateReplyOp(v2ex_replies, v2ex_topics, p[2], now),
                   v2ex_topics, p[1], now)

\* C26: two upserts of threads, or of replies, applied in either order leave
\* the same stored state, two upserts of one id with different field values
\* included.
C26_UpsertsCommute ==
    UpsertsCommute(TopicDicts(now) \X TopicDicts(now), ReplyDicts(now) \X ReplyDicts(now))

\* Upserts of different ids do commute.
UpsertsOfDifferentIdsCommute ==
    UpsertsCommute({p \in TopicDicts(now) \X TopicDicts(now) : p[1].id # p[2].id},
                   {p \in ReplyDicts(now) \X ReplyDicts(now) : p[1].id # p[2].id})

RowsOf(run) == {k \in 1..Len(reports) : reports[k].run = run}

PagesOf(run) == {k \in 1..Len(notion_pages) : notion_pages[k].run = run}

\* C27: a report row is persisted, and the report pushed, only for a
\* generation that reports success; a generation whose result has success
\* false, one built from a partial LLM response included, leaves no row.
C27_RowOnlyForSuccessfulGeneration ==
    \A run \in 1..Len(report_results) :
        ~report_results[run].success => RowsOf(run) = {} /\ PagesOf(run) = {}

\* A generation whose analysis failed outright leaves no row and no page, and
\* every page pushed has its row.
FailedAnalysisLeavesNoRow ==
    \A run \in 1..Len(report_results) :
        /\ ~report_results[run].success /\ ~report_results[run].partial =>
              RowsOf(run) = {} /\ PagesOf(run) = {}
        /\ PagesOf(run) # {} => RowsOf(run) # {}
        /\ report_results[run].success => Cardinality(RowsOf(run)) = 1

\* C28: the batch thread upsert is all-or-nothing: when it fails at a row or
\* at the commit the thread table is as it was before the call, and when it
\* does not fail every thread of the batch is stored.
C28_BatchUpsertAllOrNothing ==
    lastOp = "batch_insert_or_update_topics" =>
        /\ lastArgs.raised => v2ex_topics = lastArgs.before
        /\ ~lastArgs.commit_ok /\ lastArgs.ids # {} => lastArgs.raised
        /\ ~lastArgs.raised => lastArgs.ids \subseteq DOMAIN v2ex_topics

\* A batch of two whose first row, of a thread not yet stored, was written
\* and whose second row was refused: the first thread is not in the table.
C28_Witness ==
    /\ lastOp = "batch_insert_or_update_topics"
    /\ lastArgs.raised
    /\ lastArgs.commit_ok
    /\ lastArgs.first # 0
    /\ lastArgs.first \notin DOMAIN lastArgs.before
    /\ lastArgs.first \notin DOMAIN v2ex_topics

\* A batch whose rows were all written and whose commit failed.
C28_CommitFailureWitness ==
    /\ lastOp = "batch_insert_or_update_topics"
    /\ lastArgs.raised
    /\ ~lastArgs.commit_ok
    /\ lastArgs.ids = {1, 2}
    /\ lastArgs.before = EmptyTable
    /\ v2ex_topics = EmptyTable

\* The workers whose flush is under way.
Flushing == {i \in DOMAIN worker : worker[i] = "flushing"}

BuffersDoNotGrow ==
    /\ Len(current_batch_topics') <= Len(current_batch_topics)
    /\ Len(current_batch_replies') <= Len(current_batch_replies)
    /\ Len(current_batch_users') <= Len(current_batch_users)

\* C29: the batch flushes of a pipeline are serialized: at any moment at most
\* one flush is in progress, and while one is under way no worker adds to the
\* batch buffers.
C29_FlushesSerialized ==
    /\ [](Cardinality(Flushing) <= 1)
    /\ [][Flushing # {} => BuffersDoNotGrow]_vars

\* The first flush of a list of eleven is in progress, ten threads in the
\* buffer, while the other worker holds the result of the eleventh and waits
\* for the lock.
C29_Witness ==
    /\ Len(pipeline_topics) = 11
    /\ Flushing # {}
    /\ Len(current_batch_topics) = 10
    /\ writes = <<>>
    /\ \E j \in DOMAIN worker : worker[j] = "fetched"

CountersAndBuffers ==
    <<processed_count, failed_count, current_batch_topics, current_batch_replies,
      current_batch_users, all_replies>>

\* C30: the shared counters and buffers change only while the lock is held,
\* and under every interleaving, when the pipeline returns, the processed
\* count is the number of input threads and every input thread was added to
\* the batch buffer exactly once.
C30_NoLostUpdate ==
    /\ [](returned =>
            /\ processed_count = Len(pipeline_topics)
            /\ \A i \in DOMAIN pipeline_topics : appended[i] = 1)
    /\ [][CountersAndBuffers' # CountersAndBuffers => lock # 0]_vars

\* A run of three threads with three workers returned: thread 3 was the
\* first in the buffer, one worker raised, the counts are 3 and 1.
C30_Witness ==
    /\ returned
    /\ Len(pipeline_topics) = 3
    /\ max_workers = 3
    /\ raiser = 2
    /\ processed_count = 3
    /\ failed_count = 1
    /\ flush # NoFlush
    /\ flush.topics[1].id = 3
    /\ Len(flush.topics) = 3

\* C31: every batch of threads a flush of the pipeline hands to storage holds
\* at most 10 threads, also in runs in which a fetch or an earlier flush
\* failed.
C31_FlushedBatchAtMostTen ==
    flush # NoFlush => Len(flush.topics) <= 10

\* Without a raising worker and without a refused write no flushed batch is
\* longer than 10.
FlushedBatchAtMostTenWithoutFailure ==
    raiser = 0 /\ WritesSucceed /\ flush # NoFlush => Len(flush.topics) <= 10

\* C32: on consecutive failed attempts of one request each backoff wait is
\* strictly longer than the one before, whatever the jitter.
C32_BackoffStrictlyGrows ==
    \A k \in 2..Len(waits) : waits[k].wait > waits[k - 1].wait

\* On consecutive 429 responses no wait is shorter than the one before.
RateLimitedWaitsNotShorter ==
    \A k \in 2..Len(waits) :
        waits[k].status = "429" /\ waits[k - 1].status = "429" =>
            waits[k].wait >= waits[k - 1].wait

\* The stored threads a stored reply belongs to.
ThreadsOfReply(r) == {t \in DOMAIN v2ex_topics : v2ex_replies[r].topic_id = t}

\* C33: after any sequence of batch flushes, final saves and purges every
\* stored reply references a stored thread, and each reply id belongs to
\* exactly one thread.
C33_RepliesReferenceStoredThread ==
    \A r \in DOMAIN v2ex_replies :
        /\ v2ex_replies[r].topic_id \in DOMAIN v2ex_topics
        /\ Cardinality(ThreadsOfReply(r)) = 1

\* A purge deleted one thread, with at least one reply stored for the thread
\* that stays.
C33_Witness ==
    /\ lastOp = "clean_old_data"
    /\ lastArgs.deleted_count = 1
    /\ DOMAIN v2ex_topics = {2}
    /\ v2ex_replies # EmptyTable
    /\ now = 1

\* The step is a call of one of the two scoring updates.
ScoringUpdateStep == lastOp' \in {"update_total_thanks", "update_hotness_scores"}

\* The rows outside the id list of the call are left as they were.
RowsOutsideListUnchanged ==
    \A i \in DOMAIN v2ex_topics \ lastArgs'.topic_ids : v2ex_topics'[i] = v2ex_topics[i]

\* C34: update_total_thanks and update_hotness_scores update every thread
\* only when the id list is None; given an id list, the empty one included,
\* they leave the threads outside the list unchanged.
C34_UpdateOnlyListedThreads ==
    [][ScoringUpdateStep /\ lastArgs'.topic_ids # NoIds => RowsOutsideListUnchanged]_vars

\* Given a list with at least one id, the threads outside it are unchanged.
NonEmptyListUpdatesOnlyListedThreads ==
    [][ScoringUpdateStep /\ lastArgs'.topic_ids \notin {NoIds, {}}
          => RowsOutsideListUnchanged]_vars

AllTasks == {MaintenanceTasks[k] : k \in DOMAIN MaintenanceTasks}

TaskPosition(task) == CHOOSE k \in DOMAIN MaintenanceTasks : MaintenanceTasks[k] = task

\* The tasks of an execution ran in the order crawl, analysis, report,
\* cleanup, stats, analysis only after a successful crawl and report only
\* after a successful analysis.
RanInOrder(e) ==
    /\ \A j, k \in DOMAIN e.ran : j < k => TaskPosition(e.ran[j]) < TaskPosition(e.ran[k])
    /\ \A k \in DOMAIN e.ran :
           /\ e.ran[k] = "analysis" => "crawl" \in e.results.succeeded
           /\ e.ran[k] = "report" => "analysis" \in e.results.succeeded

RanCleanupAndStats(e) == {"cleanup", "stats"} \subseteq {e.ran[k] : k \in DOMAIN e.ran}

ReturnedResultPerTask(e) ==
    /\ e.outcome = "returned"
    /\ e.results.entries = AllTasks
    /\ e.success = (e.results.succeeded = AllTasks)

FinishedAsStated(e) == RanInOrder(e) /\ RanCleanupAndStats(e) /\ ReturnedResultPerTask(e)

\* C35: every execution of run_full_maintenance runs the tasks in order
\* (analysis only after a successful crawl, report only after a successful
\* analysis), runs cleanup and stats, and returns a result with one entry
\* per task whose success is true only if all five succeeded.
C35_MaintenanceRunsEveryStage ==
    \A k \in DOMAIN maintenance_log : FinishedAsStated(maintenance_log[k])

\* An execution in which the crawl or the analysis failed finishes as stated.
MaintenanceWithoutReportFinishes ==
    \A k \in DOMAIN maintenance_log :
        LET e == maintenance_log[k]
        IN  {"crawl", "analysis"} \subseteq e.results.succeeded \/ FinishedAsStated(e)

\* An execution under way ends: it returns or raises.
MaintenanceEnds == (maintenance # NoMaintenance) ~> (maintenance = NoMaintenance)

\* The step is the final save of the run.
FinalSaveStep == returned /\ crawl_result = NoResult /\ crawl_result' # NoResult

\* The ids of the threads and of the replies the final save hands to its two
\* batch upserts.
FinalSaveThreadIds ==
    {PipelineResult.topics_to_update[i].id : i \in DOMAIN PipelineResult.topics_to_update}

FinalSaveReplyIds ==
    {PipelineResult.all_replies[i].id : i \in DOMAIN PipelineResult.all_replies}

\* C36: the final save writes only the threads and replies the batch flushes
\* of the run have not stored; nothing persisted by a flush is written again.
C36_FinalSaveWritesOnlyUnsaved ==
    [][FinalSaveStep => /\ FinalSaveThreadIds \cap DOMAIN v2ex_topics = {}
                        /\ FinalSaveReplyIds \cap DOMAIN v2ex_replies = {}]_vars

\* Every thread and reply of the run that no flush has stored is handed to
\* the final save.
FinalSaveCoversUnflushed ==
    [][FinalSaveStep =>
          /\ \A i \in DOMAIN pipeline_topics :
                 pipeline_topics[i].id \notin DOMAIN v2ex_topics
                     => pipeline_topics[i].id \in FinalSaveThreadIds
          /\ \A i \in DOMAIN all_replies :
                 all_replies[i].id \notin DOMAIN v2ex_replies
                     => all_replies[i].id \in FinalSaveReplyIds]_vars

\* The step is a serial crawl of section s that ended without an exception.
SectionCrawled(s) ==
    /\ max_concurrent_nodes = 1
    /\ node_results[s] = Pending
    /\ node_results'[s] # Pending
    /\ s \notin failed_sections'

\* The thread is stored with a last-activity timestamp at least one second
\* behind the clock.
StoredEarlier(id) ==
    /\ id \in DOMAIN v2ex_topics
    /\ v2ex_topics[id].last_touched_timestamp # NULL
    /\ v2ex_topics[id].last_touched_timestamp + 1 <= now

\* The section's result holds the thread with the body of its detail page.
Refetched(s, id) ==
    \E i \in DOMAIN node_results'[s].topics_to_update :
        /\ node_results'[s].topics_to_update[i].id = id
        /\ node_results'[s].topics_to_update[i].content = DetailPage(id, now).content

ParsedReplies ==
    UNION {{parsed_runs[k][j] : j \in DOMAIN parsed_runs[k]} : k \in DOMAIN parsed_runs}

SynthesizedReplies ==
    {r \in ParsedReplies : r.id = SyntheticReplyId(r.topic_id, r.reply_floor)}

\* Two synthesized ids are equal only for the same thread and floor.
SynthesizedIdsDistinctAcrossPairs ==
    \A r, q \in SynthesizedReplies :
        r.id = q.id => r.topic_id = q.topic_id /\ r.reply_floor = q.reply_floor

\* A synthesized id is not the id of a reply of another thread.
SynthesizedIdNotOfOtherThread ==
    \A r \in SynthesizedReplies : \A q \in ParsedReplies :
        q.topic_id # r.topic_id => q.id # r.id

\* The text of every stored reply is a text of the thread its row names.
ContentOnRowOfOwnThread ==
    \A id \in DOMAIN v2ex_replies : v2ex_replies[id].content.tag = v2ex_replies[id].topic_id

\* C38: synthesized reply ids are unique: two distinct (thread id, floor)
\* pairs never get the same id, a synthesized id never equals the id of a
\* reply of another thread, and so an upsert never attaches a reply's
\* content to a row of a different thread.
C38_SyntheticIdsUnique ==
    /\ SynthesizedIdsDistinctAcrossPairs
    /\ SynthesizedIdNotOfOtherThread
    /\ ContentOnRowOfOwnThread

\* No write of the step lowers the stored last-activity timestamp of a
\* thread.
LastActivityNotLowered ==
    \A id \in DOMAIN v2ex_topics \cap DOMAIN v2ex_topics' :
        v2ex_topics[id].last_touched_timestamp # NULL
            => /\ v2ex_topics'[id].last_touched_timestamp # NULL
               /\ v2ex_topics'[id].last_touched_timestamp
                      >= v2ex_topics[id].last_touched_timestamp

\* The run's list names no thread twice.
ListedOnce ==
    \A i, j \in DOMAIN pipeline_topics :
        pipeline_topics[i].id = pipeline_topics[j].id => i = j

\* C39: the stored last-activity timestamp of a thread never decreases, also
\* when the thread is listed more than once in a run and the detail fetches
\* complete in any order.
C39_LastActivityNeverDecreases == [][LastActivityNotLowered]_vars

\* In a run whose list names every thread once the timestamp never decreases.
LastActivityNeverDecreasesListedOnce == [][ListedOnce => LastActivityNotLowered]_vars

\* Every request starts at least rate_limit_delay after the one before it.
RequestsSpaced ==
    \A k \in 2..Len(request_starts) :
        request_starts[k] - request_starts[k - 1] >= rate_limit_delay

\* C40: the shared rate limiter spaces the requests: under every
\* interleaving of the coroutines any two consecutive detail requests start
\* at least rate_limit_delay (1 s) apart.
C40_RequestsSpacedByDelay == RequestsSpaced

\* With one coroutine inside the semaphore at a time the requests are spaced.
RequestsSpacedUnderBoundOne == max_concurrent_replies = 1 => RequestsSpaced

====
